---- MODULE Spec2Model ----
(***************************************************************************)
(* Model of the tasks-map document mutator (src/src/lib/utils.ts) and of   *)
(* the canvas persistence of the graph view                                *)
(* (src/src/views/TaskMapGraphView.tsx).                                   *)
(*                                                                         *)
(* Document text, lines, task texts, ids and tags are TLA+ strings and are *)
(* handled character by character, as the JavaScript string and RegExp     *)
(* calls of the source handle them.  Three emoji of the source are written *)
(* with one ASCII stand-in character each, which occurs nowhere else in    *)
(* the inputs: EmojiId (U+1F194), EmojiStop (U+26D4), EmojiStar (U+2B50).  *)
(* Array indices are 1-based here; 0 stands for JavaScript's -1.           *)
(***************************************************************************)
EXTENDS Integers, Sequences, FiniteSets, TLC

VARIABLES
  content,      \* text of the one document of the vault (vault.process reads and replaces it)
  task,         \* the Task record the caller holds: [id, text, type, link]
  linkingStyle, \* settings.linkingStyle
  before,       \* document text before the last mutation
  last,         \* the last operation applied: [op, arg]
  prior,        \* the operation applied before the last one, and the text it ran on: [op, arg, text]
  added,        \* dependency ids passed to addSignToTaskInFile(.., "stop", ..) so far, in order
  steps,        \* number of operations applied
  saved,        \* plugin.graphData: the persisted snapshot
  nodes,        \* React state `nodes` of the graph view
  edges,        \* React state `edges` of the graph view
  tasks,        \* React state `tasks` of the graph view: the freshly parsed tasks
  mounted,      \* isMountedRef: the graph view is mounted
  debounce,     \* saveTimeoutRef: time left on the debounce timer, NoTimer when none is pending
  kicks,        \* pending setTimeout(() => saveGraphData(), 100): the time left on each
  wrote,        \* the last step called plugin.saveGraphData
  elapsed,      \* time since the last call of the debounced saveGraphData
  shown,        \* a task node's local state [tags, starred], the mutation its handler
                \* awaits, and the value it showed before the handler ran (was)
  built,        \* the edges the graph builder returned
  scans,        \* the scans started so far, in order: [read, done]; read is <<>> or <<tasks read>>
  isLoading     \* the loading indicator of the sidebar

docVars == <<content, task, linkingStyle, before, last, prior, added, steps>>
timerVars == <<mounted, debounce, kicks, wrote, elapsed>>
canvasVars == <<saved, nodes, edges, tasks, timerVars, shown, built, scans, isLoading>>
vars == <<content, task, linkingStyle, before, last, prior, added, steps,
          saved, nodes, edges, tasks, mounted, debounce, kicks, wrote, elapsed,
          shown, built, scans, isLoading>>

----------------------------------------------------------------------------
(* Characters and the JavaScript string primitives the source uses.        *)

EmojiId == "@"
EmojiStop == "!"
EmojiStar == "*"

Lower == {"a","b","c","d","e","f","g","h","i","j","k","l","m",
          "n","o","p","q","r","s","t","u","v","w","x","y","z"}
Upper == {"A","B","C","D","E","F","G","H","I","J","K","L","M",
          "N","O","P","Q","R","S","T","U","V","W","X","Y","Z"}
Digit == {"0","1","2","3","4","5","6","7","8","9"}

\* RegExp class \s
IsSpace(c) == c \in {" ", "\t", "\r", "\n"}
\* RegExp class [a-zA-Z0-9]
IsAlnum(c) == c \in Lower \cup Upper \cup Digit

CharAt(s, i) == SubSeq(s, i, i)
From(s, i) == SubSeq(s, i, Len(s))
Upto(s, i) == SubSeq(s, 1, i)

\* s.startsWith(p, i-1)
StartsWithAt(s, i, p) ==
  /\ i + Len(p) - 1 <= Len(s)
  /\ SubSeq(s, i, i + Len(p) - 1) = p

RECURSIVE IndexFrom(_, _, _)
\* s.indexOf(p, i-1) + 1
IndexFrom(s, p, i) ==
  IF i + Len(p) - 1 > Len(s) THEN 0
  ELSE IF StartsWithAt(s, i, p) THEN i
  ELSE IndexFrom(s, p, i + 1)

IndexOf(s, p) == IndexFrom(s, p, 1)

\* s.includes(p)
Includes(s, p) == IndexOf(s, p) # 0

\* s.replace(p, r) for a string pattern p: the first occurrence only
ReplaceFirst(s, p, r) ==
  LET i == IndexOf(s, p)
  IN IF i = 0 THEN s ELSE Upto(s, i - 1) \o r \o From(s, i + Len(p))

RECURSIVE SkipSpace(_, _)
\* position after the longest run of \s starting at i
SkipSpace(s, i) ==
  IF i <= Len(s) /\ IsSpace(CharAt(s, i)) THEN SkipSpace(s, i + 1) ELSE i

RECURSIVE SkipNonSpace(_, _)
\* position after the longest run of \S starting at i
SkipNonSpace(s, i) ==
  IF i <= Len(s) /\ ~IsSpace(CharAt(s, i)) THEN SkipNonSpace(s, i + 1) ELSE i

RECURSIVE SkipAlnum(_, _)
\* position after the longest run of [a-zA-Z0-9] starting at i
SkipAlnum(s, i) ==
  IF i <= Len(s) /\ IsAlnum(CharAt(s, i)) THEN SkipAlnum(s, i + 1) ELSE i

RECURSIVE TrimEnd(_)
\* s.replace(/\s+$/, "")
TrimEnd(s) ==
  IF Len(s) > 0 /\ IsSpace(CharAt(s, Len(s))) THEN TrimEnd(Upto(s, Len(s) - 1)) ELSE s

\* s.trim()
Trim(s) == TrimEnd(From(s, SkipSpace(s, 1)))

RECURSIVE CollapseSpace(_)
\* s.replace(/\s+/g, " ")
CollapseSpace(s) ==
  IF s = "" THEN ""
  ELSE IF IsSpace(CharAt(s, 1)) THEN " " \o CollapseSpace(From(s, SkipSpace(s, 1)))
  ELSE CharAt(s, 1) \o CollapseSpace(From(s, 2))

RECURSIVE split(_)
\* fileContent.split(/\r?\n/)
split(s) ==
  LET i == IndexOf(s, "\n")
  IN IF i = 0 THEN <<s>>
     ELSE LET e == IF i > 1 /\ CharAt(s, i - 1) = "\r" THEN i - 2 ELSE i - 1
          IN <<Upto(s, e)>> \o split(From(s, i + 1))

RECURSIVE join(_)
\* lines.join("\n")
join(lines) ==
  IF Len(lines) = 0 THEN ""
  ELSE IF Len(lines) = 1 THEN lines[1]
  ELSE lines[1] \o "\n" \o join(Tail(lines))

RECURSIVE FindFrom(_, _, _)
\* lines.findIndex(P) + 1, searching from index i
FindFrom(lines, P(_), i) ==
  IF i > Len(lines) THEN 0
  ELSE IF P(lines[i]) THEN i
  ELSE FindFrom(lines, P, i + 1)

findIndex(lines, P(_)) == FindFrom(lines, P, 1)

\* lines.splice(i-1, n, ...ins)
splice(lines, i, n, ins) ==
  SubSeq(lines, 1, i - 1) \o ins \o SubSeq(lines, i + n, Len(lines))

----------------------------------------------------------------------------
(* The vault holds one document, at DocPath.  vault.getFileByPath(p) and   *)
(* vault.getAbstractFileByPath(p) find a file exactly when p = DocPath.    *)

DocPath == "n.md"

fileExists(path) == path = DocPath

\* A faulty statusSymbols, the glyphs of done and canceled exchanged; the
\* round trip of C6 tells it from the real one.
statusSymbolsSwapped(s) ==
  CASE s = "todo" -> "[ ]"
    [] s = "in_progress" -> "[/]"
    [] s = "canceled" -> "[x]"
    [] s = "done" -> "[-]"

statusSymbols(s) ==
  CASE s = "todo" -> "[ ]"
    [] s = "in_progress" -> "[/]"
    [] s = "canceled" -> "[-]"
    [] s = "done" -> "[x]"

findTaskLineByIdOrText(lines, taskId, taskText) ==
  LET byEmoji == findIndex(lines, LAMBDA line : Includes(line, EmojiId \o " " \o taskId))
      byField == findIndex(lines, LAMBDA line : Includes(line, "[[id:: " \o taskId \o "]]"))
  IN IF byEmoji # 0 THEN byEmoji
     ELSE IF byField # 0 THEN byField
     ELSE findIndex(lines, LAMBDA line : Includes(line, taskText))

\* A faulty frontmatterEnd that takes any later "---" for the closing
\* boundary without asking that the first line opens the block; C8 tells it
\* from the real one.
frontmatterEndUnopened(lines) ==
  FindFrom(lines, LAMBDA line : line = "---", 2)

\* Frontmatter boundaries: the index of the closing "---" when lines[0] is
\* "---" and a later line is "---"; 0 when either is missing
\* (frontmatterStart === -1 || frontmatterEnd === -1).
frontmatterEnd(lines) ==
  IF lines[1] = "---" THEN FindFrom(lines, LAMBDA line : line = "---", 2) ELSE 0

RECURSIVE CheckboxFrom(_, _)
\* index of the first match of /\[([ x/\-])\]/ at or after i
CheckboxFrom(s, i) ==
  IF i + 2 > Len(s) THEN 0
  ELSE IF /\ CharAt(s, i) = "["
          /\ CharAt(s, i + 1) \in {" ", "x", "/", "-"}
          /\ CharAt(s, i + 2) = "]"
       THEN i
  ELSE CheckboxFrom(s, i + 1)

\* line.replace(/\[([ x/\-])\]/, symbol)
replaceCheckbox(line, symbol) ==
  LET i == CheckboxFrom(line, 1)
  IN IF i = 0 THEN line ELSE Upto(line, i - 1) \o symbol \o From(line, i + 3)

noteStatus(newStatus) ==
  CASE newStatus = "todo" -> "open"
    [] newStatus = "done" -> "done"
    [] newStatus = "in_progress" -> "in-progress"
    [] newStatus = "canceled" -> "canceled"
    [] OTHER -> "open"

updateStatusNote(newStatus, fileContent) ==
  LET lines == split(fileContent)
      fmEnd == frontmatterEnd(lines)
      i == FindFrom(SubSeq(lines, 1, fmEnd - 1),
                    LAMBDA line : StartsWithAt(line, 1, "status:"), 2)
  IN IF fmEnd = 0 THEN fileContent
     ELSE IF i = 0 THEN join(lines)
     ELSE join([lines EXCEPT ![i] = "status: " \o noteStatus(newStatus)])

updateStatusInline(t, newStatus, fileContent) ==
  LET lines == split(fileContent)
      taskLineIdx == findTaskLineByIdOrText(lines, t.id, t.text)
  IN IF taskLineIdx = 0 THEN fileContent
     ELSE join([lines EXCEPT ![taskLineIdx] =
                  replaceCheckbox(lines[taskLineIdx], statusSymbols(newStatus))])

updateTaskStatusInVault(t, newStatus, fileContent) ==
  IF t.link = "" \/ t.text = "" THEN fileContent
  ELSE IF ~fileExists(t.link) THEN fileContent
  ELSE IF t.type = "note" THEN updateStatusNote(newStatus, fileContent)
  ELSE updateStatusInline(t, newStatus, fileContent)

----------------------------------------------------------------------------
(* Marker stripping of src/lib/task-regex (EMOJI_ID_REMOVAL,               *)
(* DATAVIEW_ID_REMOVAL, TAG_REMOVAL, WHITESPACE_NORMALIZE), used by the    *)
(* core-text fallback of the tag operations.                               *)

\* position after a run of exactly IdLen characters [a-zA-Z0-9] at i, else 0
IdLen == 6

IdEnd(s, i) ==
  IF SkipAlnum(s, i) - i >= IdLen THEN i + IdLen ELSE 0

\* position after a match of /<emoji>\s*[a-zA-Z0-9]{6}/ at i, else 0
EmojiMarkerEnd(s, i, emoji) ==
  IF StartsWithAt(s, i, emoji) THEN IdEnd(s, SkipSpace(s, i + Len(emoji))) ELSE 0

\* position after a match of /\[\[id::\s*[a-zA-Z0-9]{6}\]\]/ at i, else 0
IdFieldEnd(s, i) ==
  IF StartsWithAt(s, i, "[[id::")
  THEN LET e == IdEnd(s, SkipSpace(s, i + 6))
       IN IF e # 0 /\ StartsWithAt(s, e, "]]") THEN e + 2 ELSE 0
  ELSE 0

RECURSIVE removeEmojiId(_)
removeEmojiId(s) ==
  IF s = "" THEN ""
  ELSE LET e == EmojiMarkerEnd(s, 1, EmojiId)
       IN IF e # 0 THEN removeEmojiId(From(s, e))
          ELSE CharAt(s, 1) \o removeEmojiId(From(s, 2))

RECURSIVE removeIdField(_)
removeIdField(s) ==
  IF s = "" THEN ""
  ELSE LET e == IdFieldEnd(s, 1)
       IN IF e # 0 THEN removeIdField(From(s, e))
          ELSE CharAt(s, 1) \o removeIdField(From(s, 2))

RECURSIVE removeTags(_)
removeTags(s) ==
  IF s = "" THEN ""
  ELSE IF CharAt(s, 1) = "#" /\ SkipNonSpace(s, 2) > 2
       THEN removeTags(From(s, SkipNonSpace(s, 2)))
  ELSE CharAt(s, 1) \o removeTags(From(s, 2))

\* text.replace(EMOJI_ID_REMOVAL, "").replace(DATAVIEW_ID_REMOVAL, "")
\*     .replace(TAG_REMOVAL, "").replace(WHITESPACE_NORMALIZE, " ").trim()
coreText(s) == Trim(CollapseSpace(removeTags(removeIdField(removeEmojiId(s)))))

\* The line the tag operations work on: findTaskLineByIdOrText, then the
\* fallback on the core text of the task and of each line.
findTaskLineForTag(lines, t) ==
  LET taskLineIdx == findTaskLineByIdOrText(lines, t.id, t.text)
      coreTaskText == coreText(t.text)
  IN IF taskLineIdx # 0 THEN taskLineIdx
     ELSE findIndex(lines, LAMBDA line :
            \/ Includes(coreText(line), coreTaskText)
            \/ Includes(coreTaskText, coreText(line)))

----------------------------------------------------------------------------
(* Tag and star operations.                                                *)

\* /^\s{2}- /.test(line)
isListItem(line) ==
  /\ Len(line) >= 4
  /\ IsSpace(CharAt(line, 1)) /\ IsSpace(CharAt(line, 2))
  /\ SubSeq(line, 3, 4) = "- "

\* line.match(/^\s{2}- (.+)$/): TRUE when it matches; the group is From(line, 5)
itemMatch(line) ==
  /\ isListItem(line)
  /\ Len(line) >= 5
  /\ ~Includes(From(line, 5), "\r")

RECURSIVE listEnd(_, _, _)
\* index after the run of list items that starts at j, not beyond fmEnd
listEnd(lines, j, fmEnd) ==
  IF j < fmEnd /\ isListItem(lines[j]) THEN listEnd(lines, j + 1, fmEnd) ELSE j

RECURSIVE findItem(_, _, _, _)
\* index of the item with value v in the run of list items that starts at j; else 0
findItem(lines, j, fmEnd, v) ==
  IF j < fmEnd /\ isListItem(lines[j])
  THEN IF itemMatch(lines[j]) /\ From(lines[j], 5) = v THEN j
       ELSE findItem(lines, j + 1, fmEnd, v)
  ELSE 0

\* first index i with 1 < i < fmEnd whose line satisfies P; else 0
findInBlock(lines, fmEnd, P(_)) == FindFrom(SubSeq(lines, 1, fmEnd - 1), P, 2)

removeTagNote(tagToRemove, fileContent) ==
  LET lines == split(fileContent)
      fmEnd == frontmatterEnd(lines)
      tagsIndex == findInBlock(lines, fmEnd, LAMBDA line : line = "tags:")
      i == findItem(lines, tagsIndex + 1, fmEnd, tagToRemove)
  IN IF fmEnd = 0 THEN fileContent
     ELSE IF tagsIndex = 0 \/ i = 0 THEN join(lines)
     ELSE join(splice(lines, i, 1, <<>>))

RECURSIVE removeTagPattern(_, _)
\* line.replace(tagPattern, "") with
\* tagPattern = /\s*#<tag>(?:\/\S*)?(?=\s|$)/g
removeTagPattern(s, tag) ==
  IF s = "" THEN ""
  ELSE LET j == SkipSpace(s, 1)
           k == j + Len(tag) + 1
           e == IF StartsWithAt(s, k, "/") THEN SkipNonSpace(s, k + 1) ELSE k
           m == /\ StartsWithAt(s, j, "#" \o tag)
                /\ (e > Len(s) \/ IsSpace(CharAt(s, e)))
       IN IF m THEN removeTagPattern(From(s, e), tag)
          ELSE CharAt(s, 1) \o removeTagPattern(From(s, 2), tag)

removeTagInline(t, tagToRemove, fileContent) ==
  LET lines == split(fileContent)
      taskLineIdx == findTaskLineForTag(lines, t)
  IN IF taskLineIdx = 0 THEN fileContent
     ELSE join([lines EXCEPT ![taskLineIdx] =
                  Trim(CollapseSpace(removeTagPattern(lines[taskLineIdx], tagToRemove)))])

removeTagFromTaskInVault(t, tagToRemove, fileContent) ==
  IF t.link = "" \/ t.text = "" THEN fileContent
  ELSE IF ~fileExists(t.link) THEN fileContent
  ELSE IF t.type = "note" THEN removeTagNote(tagToRemove, fileContent)
  ELSE removeTagInline(t, tagToRemove, fileContent)

addTagNote(tagToAdd, fileContent) ==
  LET lines == split(fileContent)
      fmEnd == frontmatterEnd(lines)
      tagsIndex == findInBlock(lines, fmEnd, LAMBDA line : line = "tags:")
      item == "  - " \o tagToAdd
  IN IF fmEnd = 0 THEN fileContent
     ELSE IF tagsIndex = 0 THEN join(splice(lines, fmEnd, 0, <<"tags:", item>>))
     ELSE IF findItem(lines, tagsIndex + 1, fmEnd, tagToAdd) # 0 THEN fileContent
     ELSE join(splice(lines, listEnd(lines, tagsIndex + 1, fmEnd), 0, <<item>>))

addTagInline(t, tagToAdd, fileContent) ==
  LET lines == split(fileContent)
      taskLineIdx == findTaskLineForTag(lines, t)
      formattedTag == IF StartsWithAt(tagToAdd, 1, "#") THEN tagToAdd ELSE "#" \o tagToAdd
  IN IF taskLineIdx = 0 THEN fileContent
     ELSE join([lines EXCEPT ![taskLineIdx] =
                  Trim(lines[taskLineIdx]) \o " " \o formattedTag])

addTagToTaskInVault(t, tagToAdd, fileContent) ==
  IF t.link = "" \/ t.text = "" THEN fileContent
  ELSE IF ~fileExists(t.link) THEN fileContent
  ELSE IF t.type = "note" THEN addTagNote(tagToAdd, fileContent)
  ELSE addTagInline(t, tagToAdd, fileContent)

addStarNote(fileContent) ==
  LET lines == split(fileContent)
      fmEnd == frontmatterEnd(lines)
      starredIndex == findInBlock(lines, fmEnd, LAMBDA line : StartsWithAt(line, 1, "starred:"))
      priorityIndex == findInBlock(lines, fmEnd, LAMBDA line : StartsWithAt(line, 1, "priority:"))
      insertIndex == IF priorityIndex # 0 THEN priorityIndex + 1 ELSE fmEnd
  IN IF fmEnd = 0 THEN fileContent
     ELSE IF starredIndex # 0 THEN join([lines EXCEPT ![starredIndex] = "starred: true"])
     ELSE join(splice(lines, insertIndex, 0, <<"starred: true">>))

\* A faulty addStarInline that appends the star without looking for one on
\* the line; C22 tells it from the real one.
addStarInlineAlways(t, fileContent) ==
  LET lines == split(fileContent)
      taskLineIdx == findTaskLineByIdOrText(lines, t.id, t.text)
  IN IF taskLineIdx = 0 THEN fileContent
     ELSE join([lines EXCEPT ![taskLineIdx] = lines[taskLineIdx] \o " " \o EmojiStar])

addStarInline(t, fileContent) ==
  LET lines == split(fileContent)
      taskLineIdx == findTaskLineByIdOrText(lines, t.id, t.text)
  IN IF taskLineIdx = 0 THEN fileContent
     ELSE IF Includes(lines[taskLineIdx], EmojiStar) THEN fileContent
     ELSE join([lines EXCEPT ![taskLineIdx] = lines[taskLineIdx] \o " " \o EmojiStar])

addStarToTaskInVault(t, fileContent) ==
  IF t.link = "" \/ t.text = "" THEN fileContent
  ELSE IF ~fileExists(t.link) THEN fileContent
  ELSE IF t.type = "note" THEN addStarNote(fileContent)
  ELSE addStarInline(t, fileContent)

removeStarNote(fileContent) ==
  LET lines == split(fileContent)
      fmEnd == frontmatterEnd(lines)
      starredIndex == findInBlock(lines, fmEnd, LAMBDA line : StartsWithAt(line, 1, "starred:"))
  IN IF fmEnd = 0 THEN fileContent
     ELSE IF starredIndex = 0 THEN join(lines)
     ELSE join([lines EXCEPT ![starredIndex] = "starred: false"])

RECURSIVE replaceStar(_)
\* line.replace(/\s*<star>\s*/g, " ")
replaceStar(s) ==
  IF s = "" THEN ""
  ELSE LET j == SkipSpace(s, 1)
       IN IF StartsWithAt(s, j, EmojiStar)
          THEN " " \o replaceStar(From(s, SkipSpace(s, j + Len(EmojiStar))))
          ELSE CharAt(s, 1) \o replaceStar(From(s, 2))

removeStarInline(t, fileContent) ==
  LET lines == split(fileContent)
      taskLineIdx == findTaskLineByIdOrText(lines, t.id, t.text)
  IN IF taskLineIdx = 0 THEN fileContent
     ELSE join([lines EXCEPT ![taskLineIdx] = Trim(replaceStar(lines[taskLineIdx]))])

removeStarFromTaskInVault(t, fileContent) ==
  IF t.link = "" \/ t.text = "" THEN fileContent
  ELSE IF ~fileExists(t.link) THEN fileContent
  ELSE IF t.type = "note" THEN removeStarNote(fileContent)
  ELSE removeStarInline(t, fileContent)

----------------------------------------------------------------------------
(* Dependency link codec: the regular expressions of addSignToTaskInFile   *)
(* and removeSignFromTaskInFile.  An "End" operator gives the position     *)
(* after a match that starts at i, or 0 when there is no match at i.       *)

RECURSIVE IdListEnd(_, _, _)
\* [a-zA-Z0-9]{6}(?:,[a-zA-Z0-9]{6})*   (sp: \s* allowed after each comma)
IdListEnd(s, i, sp) ==
  LET e == IdEnd(s, i)
  IN IF e = 0 THEN 0
     ELSE IF StartsWithAt(s, e, ",")
          THEN LET n == IdListEnd(s, IF sp THEN SkipSpace(s, e + 1) ELSE e + 1, sp)
               IN IF n # 0 THEN n ELSE e
     ELSE e

RECURSIVE TokenListEnd(_, _)
\* [a-zA-Z0-9]+(?:,[a-zA-Z0-9]+)*
TokenListEnd(s, i) ==
  LET e == SkipAlnum(s, i)
  IN IF e = i THEN 0
     ELSE IF StartsWithAt(s, e, ",")
          THEN LET n == TokenListEnd(s, e + 1)
               IN IF n # 0 THEN n ELSE e
     ELSE e

DependsOnOpen == "[[dependsOn::"

\* /\[\[dependsOn::\s*([a-zA-Z0-9]{6}(?:,\s*[a-zA-Z0-9]{6})*)\]\]/
dataviewRegexEnd(s, i) ==
  IF StartsWithAt(s, i, DependsOnOpen)
  THEN LET e == IdListEnd(s, SkipSpace(s, i + Len(DependsOnOpen)), TRUE)
       IN IF e # 0 /\ StartsWithAt(s, e, "]]") THEN e + 2 ELSE 0
  ELSE 0

\* /<stop>\s*([a-zA-Z0-9]{6}(?:,[a-zA-Z0-9]{6})*)/
csvRegexEnd(s, i) ==
  IF StartsWithAt(s, i, EmojiStop)
  THEN IdListEnd(s, SkipSpace(s, i + Len(EmojiStop)), FALSE)
  ELSE 0

\* /<stop>\s*([a-zA-Z0-9]+(?:,[a-zA-Z0-9]+)*)/   (removeSignFromTaskInFile)
csvAnyRegexEnd(s, i) ==
  IF StartsWithAt(s, i, EmojiStop)
  THEN TokenListEnd(s, SkipSpace(s, i + Len(EmojiStop)))
  ELSE 0

\* /<stop>\s*([a-zA-Z0-9]{6})/
individualRegexEnd(s, i) == EmojiMarkerEnd(s, i, EmojiStop)

emojiIdRegexEnd(s, i) == EmojiMarkerEnd(s, i, EmojiId)

RECURSIVE MatchFrom(_, _, _)
\* start of the first match at or after i of the expression whose End is E; else 0
MatchFrom(s, E(_, _), i) ==
  IF i > Len(s) THEN 0
  ELSE IF E(s, i) # 0 THEN i
  ELSE MatchFrom(s, E, i + 1)

\* regex.test(s)
Test(s, E(_, _)) == MatchFrom(s, E, 1) # 0

\* group 1 of a marker match [i, e): the id list after the opener and \s*
GroupOf(s, i, e, opener, closer) ==
  SubSeq(s, SkipSpace(s, i + Len(opener)), e - 1 - Len(closer))

RECURSIVE splitComma(_)
\* list.split(",").map((id) => id.trim())
splitComma(s) ==
  LET i == IndexOf(s, ",")
  IN IF i = 0 THEN <<Trim(s)>>
     ELSE <<Trim(Upto(s, i - 1))>> \o splitComma(From(s, i + 1))

RECURSIVE joinWith(_, _)
\* ids.join(sep)
joinWith(ids, sep) ==
  IF Len(ids) = 0 THEN ""
  ELSE IF Len(ids) = 1 THEN ids[1]
  ELSE ids[1] \o sep \o joinWith(Tail(ids), sep)

Has(seq, x) == \E i \in 1..Len(seq) : seq[i] = x

RECURSIVE Filter(_, _)
\* ids.filter((id) => id !== x)
Filter(seq, x) ==
  IF Len(seq) = 0 THEN <<>>
  ELSE IF seq[1] = x THEN Filter(Tail(seq), x)
  ELSE <<seq[1]>> \o Filter(Tail(seq), x)

\* line.replace(regex, r): the first match of the expression whose End is E
ReplaceMatch(s, E(_, _), r) ==
  LET i == MatchFrom(s, E, 1)
  IN IF i = 0 THEN s ELSE Upto(s, i - 1) \o r \o From(s, E(s, i))

RECURSIVE matchAll(_, _, _)
\* Array.from(line.matchAll(individualRegex)): the matches [text, id] in order
matchAll(s, E(_, _), i) ==
  LET m == MatchFrom(s, E, i)
  IN IF m = 0 THEN <<>>
     ELSE <<[text |-> SubSeq(s, m, E(s, m) - 1),
             id |-> GroupOf(s, m, E(s, m), EmojiStop, "")]>>
          \o matchAll(s, E, E(s, m))

RECURSIVE removeEach(_, _)
\* individualMatches.forEach((match) => updatedLine = updatedLine.replace(match[0], ""))
removeEach(s, ms) ==
  IF Len(ms) = 0 THEN s ELSE removeEach(ReplaceFirst(s, ms[1].text, ""), Tail(ms))

addIdSign(line, hash, style) ==
  LET sign == IF style = "dataview" THEN "[[id:: " \o hash \o "]]" ELSE EmojiId \o " " \o hash
  IN IF Test(line, emojiIdRegexEnd) \/ Test(line, IdFieldEnd) THEN line
     ELSE IF Includes(line, sign) THEN line
     ELSE line \o " " \o sign

addStopDataview(line, hash) ==
  LET m == MatchFrom(line, dataviewRegexEnd, 1)
      existingIds == splitComma(GroupOf(line, m, dataviewRegexEnd(line, m), DependsOnOpen, "]]"))
  IN IF m = 0 THEN line \o " " \o DependsOnOpen \o " " \o hash \o "]]"
     ELSE IF Has(existingIds, hash) THEN line
     ELSE ReplaceMatch(line, dataviewRegexEnd,
            DependsOnOpen \o " " \o joinWith(existingIds \o <<hash>>, ", ") \o "]]")

\* A faulty addStopCsv that puts the new id first in an existing list; the
\* insertion order of C5 tells it from the real one.
addStopCsvPrepend(line, hash) ==
  LET m == MatchFrom(line, csvRegexEnd, 1)
      existingIds == splitComma(GroupOf(line, m, csvRegexEnd(line, m), EmojiStop, ""))
  IN IF m # 0
     THEN IF Has(existingIds, hash) THEN line
          ELSE ReplaceMatch(line, csvRegexEnd,
                 EmojiStop \o " " \o joinWith(<<hash>> \o existingIds, ","))
     ELSE line \o " " \o EmojiStop \o " " \o hash

addStopCsv(line, hash) ==
  LET m == MatchFrom(line, csvRegexEnd, 1)
      existingIds == splitComma(GroupOf(line, m, csvRegexEnd(line, m), EmojiStop, ""))
      individualMatches == matchAll(line, individualRegexEnd, 1)
      oldIds == [k \in 1..Len(individualMatches) |-> individualMatches[k].id]
      allIds == IF Has(oldIds, hash) THEN oldIds ELSE oldIds \o <<hash>>
  IN IF m # 0
     THEN IF Has(existingIds, hash) THEN line
          ELSE ReplaceMatch(line, csvRegexEnd,
                 EmojiStop \o " " \o joinWith(existingIds \o <<hash>>, ","))
     ELSE IF Len(individualMatches) > 0
          THEN Trim(removeEach(line, individualMatches))
                 \o " " \o EmojiStop \o " " \o joinWith(allIds, ",")
     ELSE line \o " " \o EmojiStop \o " " \o hash

addStopIndividual(line, hash) ==
  LET sign == EmojiStop \o " " \o hash
  IN IF Includes(line, sign) THEN line ELSE line \o " " \o sign

addStopSign(line, hash, style) ==
  LET usesDataviewFormat ==
        \/ style = "dataview"
        \/ Test(line, IdFieldEnd)
        \/ Test(line, dataviewRegexEnd)
  IN IF usesDataviewFormat THEN addStopDataview(line, hash)
     ELSE IF style = "csv" THEN addStopCsv(line, hash)
     ELSE addStopIndividual(line, hash)

\* type is "stop" or "id".  The two early `return fileContent` of the
\* source (id already present, individual sign already present) leave the
\* text as it is, CRLF included; every other path returns lines.join("\n").
addSignToTaskInFile(t, type, hash, style, fileContent) ==
  LET lines == split(fileContent)
      taskLineIdx == findIndex(lines, LAMBDA line : Includes(line, t.text))
      line == lines[taskLineIdx]
      newLine == IF type = "id" THEN addIdSign(line, hash, style)
                 ELSE addStopSign(line, hash, style)
      earlyReturn ==
        \/ type = "id" /\ newLine = line
        \/ /\ type = "stop" /\ style = "individual"
           /\ ~Test(line, IdFieldEnd) /\ ~Test(line, dataviewRegexEnd)
           /\ newLine = line
  IN IF t.link = "" \/ t.text = "" THEN fileContent
     ELSE IF ~fileExists(t.link) THEN fileContent
     ELSE IF taskLineIdx = 0 THEN fileContent
     ELSE IF earlyReturn THEN fileContent
     ELSE join([lines EXCEPT ![taskLineIdx] = newLine])

removeIdSign(line, hash) ==
  LET emojiSign == EmojiId \o " " \o hash
      dataviewSign == "[[id:: " \o hash \o "]]"
  IN IF Includes(line, emojiSign) THEN TrimEnd(ReplaceFirst(line, emojiSign, ""))
     ELSE IF Includes(line, dataviewSign) THEN TrimEnd(ReplaceFirst(line, dataviewSign, ""))
     ELSE line

removeStopSign(line, hash) ==
  LET dm == MatchFrom(line, dataviewRegexEnd, 1)
      dIds == splitComma(GroupOf(line, dm, dataviewRegexEnd(line, dm), DependsOnOpen, "]]"))
      dLeft == Filter(dIds, hash)
      cm == MatchFrom(line, csvAnyRegexEnd, 1)
      cIds == splitComma(GroupOf(line, cm, csvAnyRegexEnd(line, cm), EmojiStop, ""))
      cLeft == Filter(cIds, hash)
      sign == EmojiStop \o " " \o hash
  IN IF dm # 0
     THEN IF Len(dLeft) = 0
          THEN TrimEnd(ReplaceFirst(line, SubSeq(line, dm, dataviewRegexEnd(line, dm) - 1), ""))
          ELSE IF Len(dLeft) # Len(dIds)
          THEN ReplaceMatch(line, dataviewRegexEnd,
                 DependsOnOpen \o " " \o joinWith(dLeft, ", ") \o "]]")
          ELSE line
     ELSE IF cm # 0
     THEN IF Len(cLeft) = 0
          THEN TrimEnd(ReplaceFirst(line, SubSeq(line, cm, csvAnyRegexEnd(line, cm) - 1), ""))
          ELSE IF Len(cLeft) # Len(cIds)
          THEN ReplaceFirst(line, SubSeq(line, cm, csvAnyRegexEnd(line, cm) - 1),
                 EmojiStop \o " " \o joinWith(cLeft, ","))
          ELSE line
     ELSE IF Includes(line, sign) THEN TrimEnd(ReplaceFirst(line, sign, ""))
     ELSE line

removeSignFromTaskInFile(t, type, hash, fileContent) ==
  LET lines == split(fileContent)
      taskLineIdx == findIndex(lines, LAMBDA line : Includes(line, t.text))
      line == lines[taskLineIdx]
      newLine == IF type = "id" THEN removeIdSign(line, hash) ELSE removeStopSign(line, hash)
  IN IF t.link = "" \/ t.text = "" THEN fileContent
     ELSE IF ~fileExists(t.link) THEN fileContent
     ELSE IF taskLineIdx = 0 THEN fileContent
     ELSE join([lines EXCEPT ![taskLineIdx] = newLine])

----------------------------------------------------------------------------
(* Dependencies of note tasks: the blockedBy list of the frontmatter.      *)

\* /^blockedBy:\s*$/.test(line)
isBlockedByField(line) ==
  StartsWithAt(line, 1, "blockedBy:") /\ SkipSpace(line, 11) > Len(line)

\* /^\s{2}- uid:/.test(line)
isUidItem(line) == isListItem(line) /\ StartsWithAt(line, 5, "uid:")

\* /^\s{4}reltype:/.test(line)
isReltypeItem(line) ==
  /\ Len(line) >= 4
  /\ \A k \in 1..4 : IsSpace(CharAt(line, k))
  /\ StartsWithAt(line, 5, "reltype:")

\* /^\s*- uid:/.test(line)
isUidLoose(line) == StartsWithAt(line, SkipSpace(line, 1), "- uid:")

\* /^\s*reltype:/.test(line)
isReltypeLoose(line) == StartsWithAt(line, SkipSpace(line, 1), "reltype:")

RECURSIVE blockedByEnd(_, _, _)
\* the insert index: after the run of uid entries (each with its reltype
\* line) that starts at i, scanning while i < fmEnd
blockedByEnd(lines, i, fmEnd) ==
  IF i < fmEnd /\ isUidItem(lines[i])
  THEN IF i + 1 <= Len(lines) /\ isReltypeItem(lines[i + 1])
       THEN blockedByEnd(lines, i + 2, fmEnd)
       ELSE blockedByEnd(lines, i + 1, fmEnd)
  ELSE i

addDependencyToNoteTask(toTask, fromTask, fileContent) ==
  LET lines == split(fileContent)
      fmEnd == frontmatterEnd(lines)
      blockedByIndex == findInBlock(lines, fmEnd, isBlockedByField)
      taskIdentifier == "[[" \o fromTask.text \o "]]"
      exists == findInBlock(lines, fmEnd, LAMBDA line :
                  Includes(line, "uid:") /\ Includes(line, taskIdentifier)) # 0
      uidLine == "  - uid: \"" \o taskIdentifier \o "\""
      reltypeLine == "    reltype: FINISHTOSTART"
  IN IF toTask.link = "" THEN fileContent
     ELSE IF ~fileExists(toTask.link) THEN fileContent
     ELSE IF fmEnd = 0 THEN fileContent
     ELSE IF exists THEN fileContent
     ELSE IF blockedByIndex = 0
          THEN join(splice(lines, fmEnd, 0, <<"blockedBy:", uidLine, reltypeLine>>))
     ELSE join(splice(lines, blockedByEnd(lines, blockedByIndex + 1, fmEnd), 0,
                      <<uidLine, reltypeLine>>))

RECURSIVE LastIndexOf(_, _, _)
\* the last index of character c in s at or before i; else 0
LastIndexOf(s, c, i) ==
  IF i < 1 THEN 0 ELSE IF CharAt(s, i) = c THEN i ELSE LastIndexOf(s, c, i - 1)

\* fromTaskId.replace(/\.md$/, "").split("/").pop()
basename(path) ==
  LET n == Len(path)
      stem == IF n >= 3 /\ SubSeq(path, n - 2, n) = ".md" THEN Upto(path, n - 3) ELSE path
  IN From(stem, LastIndexOf(stem, "/", Len(stem)) + 1)

RECURSIVE removeUidEntries(_, _, _, _)
\* the while loop of removeDependencyFromNoteTask; fmEnd drops by 2 for
\* every entry removed, whether or not a reltype line followed it
removeUidEntries(lines, i, fmEnd, ref) ==
  IF i >= fmEnd THEN lines
  ELSE IF isUidLoose(lines[i]) /\ Includes(lines[i], ref)
       THEN LET l1 == splice(lines, i, 1, <<>>)
                l2 == IF i <= Len(l1) /\ isReltypeLoose(l1[i])
                      THEN splice(l1, i, 1, <<>>) ELSE l1
            IN removeUidEntries(l2, i, fmEnd - 2, ref)
  ELSE removeUidEntries(lines, i + 1, fmEnd, ref)

removeDependencyFromNoteTask(toTask, fromTaskId, fileContent) ==
  LET lines == split(fileContent)
      fmEnd == frontmatterEnd(lines)
  IN IF toTask.link = "" THEN fileContent
     ELSE IF ~fileExists(toTask.link) THEN fileContent
     ELSE IF fmEnd = 0 THEN fileContent
     ELSE join(removeUidEntries(lines, 2, fmEnd, "[[" \o basename(fromTaskId) \o "]]"))

----------------------------------------------------------------------------
(* Re-parsing a line: the scan of scanTasksFromFiles and the status        *)
(* mapping of TaskFactory.parse.                                           *)

\* line.match(/^[\s]*- \[(.)\]/): the position of the status character, else 0
taskMatch(line) ==
  LET i == SkipSpace(line, 1)
  IN IF /\ StartsWithAt(line, i, "- [")
        /\ StartsWithAt(line, i + 4, "]")
        /\ CharAt(line, i + 3) \notin {"\r", "\n"}
     THEN i + 3 ELSE 0

\* the status of a raw task whose status character is c
parseStatus(c) ==
  CASE c = " " -> "todo"
    [] c = "/" -> "in_progress"
    [] c = "-" -> "canceled"
    [] c = "x" -> "done"
    [] OTHER -> "todo"

----------------------------------------------------------------------------
(* Inputs.                                                                 *)

MaxSteps == 2

Statuses == {"todo", "in_progress", "done", "canceled"}
Tags == {"x"}
Styles == {"individual", "csv", "dataview"}
Eols == {"\n", "\r\n"}

NoOp == [op |-> "none", arg |-> ""]
NoPrior == [op |-> "none", arg |-> "", text |-> ""]
NoTimer == 0 - 1
NoTags == [tags |-> <<>>, starred |-> FALSE, awaiting |-> NoOp,
           was |-> [tags |-> <<>>, starred |-> FALSE]]
NoAdds == [ids |-> <<>>, fresh |-> FALSE]
NoSnapshot == [nodes |-> <<>>, edges |-> <<>>]

\* Inline documents: the task line "<indent>- [c] buy<suffix>", alone or
\* between a heading, a blank line and another task.
Indents == {"", "  "}
Suffixes == {"", " #x", " #x/s", " *", " @ aaa111", " [[id:: aaa111]] #x"}

TaskLine(indent, c, suffix) == indent \o "- [" \o c \o "] buy" \o suffix

InlineDoc(shape, line, eol) ==
  CASE shape = 1 -> line
    [] shape = 2 -> "# list" \o eol \o line \o eol \o "" \o eol \o "- [x] sell #y"
    [] shape = 3 -> "- [/] sell" \o eol \o line \o eol

\* The task record as parsed from its line (its id is the embedded id, or
\* the positional fallback), and a record whose line is not in the document.
ParsedTask(suffix) ==
  [id |-> IF Includes(suffix, "aaa111") THEN "aaa111" ELSE "n.md:1",
   text |-> "buy" \o suffix, type |-> "inline", link |-> DocPath]

ForeignTask == [id |-> "n.md:7", text |-> "call", type |-> "inline", link |-> DocPath]

TimersIdle ==
  /\ mounted = TRUE /\ debounce = NoTimer /\ kicks = <<>>
  /\ wrote = FALSE /\ elapsed = 0

CanvasIdle ==
  /\ saved = NoSnapshot /\ nodes = <<>> /\ edges = <<>> /\ tasks = <<>>
  /\ TimersIdle
  /\ shown = NoTags
  /\ built = <<>>
  /\ scans = <<>>
  /\ isLoading = FALSE

Init ==
  /\ \E shape \in 1..3, indent \in Indents, suffix \in Suffixes, eol \in Eols :
       /\ content = InlineDoc(shape, TaskLine(indent, " ", suffix), eol)
       /\ task \in {ParsedTask(suffix), ForeignTask}
  /\ linkingStyle = "csv"
  /\ before = content
  /\ last = NoOp
  /\ prior = NoPrior
  /\ added = NoAdds
  /\ steps = 0
  /\ CanvasIdle

\* Bookkeeping of one mutation: vault.process has replaced the document
\* text; the caller's task record and the settings stay as they are.
Applied(op, arg) ==
  /\ before' = content
  /\ last' = [op |-> op, arg |-> arg]
  /\ prior' = [op |-> last.op, arg |-> last.arg, text |-> before]
  /\ steps' = steps + 1
  /\ UNCHANGED <<task, linkingStyle, added>>
  /\ UNCHANGED canvasVars

SetStatus ==
  \E s \in Statuses :
    /\ steps < MaxSteps
    /\ content' = updateTaskStatusInVault(task, s, content)
    /\ Applied("setStatus", s)

AddTag ==
  \E tag \in Tags :
    /\ steps < MaxSteps
    /\ content' = addTagToTaskInVault(task, tag, content)
    /\ Applied("addTag", tag)

RemoveTag ==
  \E tag \in Tags :
    /\ steps < MaxSteps
    /\ content' = removeTagFromTaskInVault(task, tag, content)
    /\ Applied("removeTag", tag)

AddStar ==
  /\ steps < MaxSteps
  /\ content' = addStarToTaskInVault(task, content)
  /\ Applied("addStar", "")

RemoveStar ==
  /\ steps < MaxSteps
  /\ content' = removeStarFromTaskInVault(task, content)
  /\ Applied("removeStar", "")

Next == SetStatus \/ AddTag \/ RemoveTag \/ AddStar \/ RemoveStar

Spec == Init /\ [][Next]_vars

----------------------------------------------------------------------------
(* Properties of the inline mutations.                                     *)

\* the line of the caller's task in text, as the status and star
\* operations locate it; 0 when it is not located
LocatedIn(text) == findTaskLineByIdOrText(split(text), task.id, task.text)

\* C1: add-tag is idempotent on an inline task whose line is located:
\* addTag(addTag(doc, X), X) = addTag(doc, X), the second add finding the
\* token #X on the line and leaving the text unchanged.
C1_AddTagIdempotent ==
  \A tag \in Tags :
    LET once == addTagToTaskInVault(task, tag, content)
        twice == addTagToTaskInVault(task, tag, once)
    IN (task.type = "inline" /\ LocatedIn(content) # 0) => twice = once

\* the glyph the checkbox holds for each status
StatusGlyph(s) ==
  CASE s = "todo" -> " "
    [] s = "in_progress" -> "/"
    [] s = "done" -> "x"
    [] s = "canceled" -> "-"

\* C6: set-status(s) on a located inline task line whose checkbox holds one
\* of space, x, / or - leaves the checkbox holding the glyph of s, so that
\* re-parsing the line gives status s, and leaves the rest of the line and
\* the number of lines unchanged.
C6_SetStatusRoundTrip ==
  LET k == LocatedIn(before)
      old == split(before)[k]
      new == split(content)[k]
      p == taskMatch(old)
  IN (/\ last.op = "setStatus"
      /\ task.type = "inline"
      /\ k # 0
      /\ p # 0
      /\ CharAt(old, p) \in {" ", "x", "/", "-"})
     => /\ Len(split(content)) = Len(split(before))
        /\ taskMatch(new) = p
        /\ CharAt(new, p) = StatusGlyph(last.arg)
        /\ parseStatus(CharAt(new, p)) = last.arg
        /\ Upto(new, p - 1) = Upto(old, p - 1)
        /\ From(new, p + 1) = From(old, p + 1)

\* C6 witness: a located task line that held [x] now holds [-].
C6_Witness ==
  LET k == LocatedIn(before)
  IN /\ last = [op |-> "setStatus", arg |-> "canceled"]
     /\ k # 0
     /\ Includes(split(before)[k], "- [x] buy")
     /\ Includes(split(content)[k], "- [-] buy")

\* no line of text contains the task's identifier marker or its stored
\* text, and no line has the same marker-stripped text
Unlocatable(text) ==
  LET lines == split(text)
  IN /\ task.type = "inline"
     /\ \A i \in 1..Len(lines) :
          /\ ~Includes(lines[i], EmojiId \o " " \o task.id)
          /\ ~Includes(lines[i], "[[id:: " \o task.id \o "]]")
          /\ ~Includes(lines[i], task.text)
          /\ coreText(lines[i]) # coreText(task.text)

\* C7: when the inline task cannot be located, every mutation returns the
\* document text unchanged: the one just applied, and each dependency
\* marker operation applied to the current text.
C7_UnlocatedIsNoOp ==
  /\ (last.op # "none" /\ Unlocatable(before)) => content = before
  /\ Unlocatable(content) =>
       \A type \in {"stop", "id"}, style \in Styles :
         /\ addSignToTaskInFile(task, type, "bbb222", style, content) = content
         /\ removeSignFromTaskInFile(task, type, "bbb222", content) = content

RECURSIVE rawLines(_)
\* the lines of text, each with its terminator: the "\r" of a CRLF stays on the line
rawLines(s) ==
  LET i == IndexOf(s, "\n")
  IN IF i = 0 THEN <<s>> ELSE <<Upto(s, i - 1)>> \o rawLines(From(s, i + 1))

\* C9 (inline tasks): a mutation changes only the located task line; every
\* other line and its terminator (LF or CRLF) is the same before and after.
C9_OtherLinesUntouched ==
  LET k == IF last.op \in {"addTag", "removeTag"}
           THEN findTaskLineForTag(split(before), task)
           ELSE LocatedIn(before)
      old == rawLines(before)
      new == rawLines(content)
  IN (last.op # "none" /\ task.type = "inline")
     => /\ Len(new) = Len(old)
        /\ \A i \in 1..Len(old) : i # k => new[i] = old[i]

----------------------------------------------------------------------------
(* Dependency markers: the specification of addSignToTaskInFile and        *)
(* removeSignFromTaskInFile on one task line.                              *)

MaxAdds == 3

Hashes == {"aaa111", "bbb222", "ccc333"}

\* what the task line carries after its text: nothing, an own id in either
\* form, or dependency markers in each dialect
DepSuffixes ==
  {"", " @ ddd444", " [[id:: ddd444]]",
   " ! aaa111", " ! aaa111 ! bbb222", " ! aaa111,bbb222",
   " [[dependsOn:: aaa111, bbb222]]"}

\* the line addSignToTaskInFile and removeSignFromTaskInFile work on; 0 when none
SignLineIn(text) == findIndex(split(text), LAMBDA line : Includes(line, task.text))

RECURSIVE depMarkers(_, _)
\* the dependency markers of a line from position i on, in order, each as
\* its list of ids: [[dependsOn:: ...]] fields and <stop> markers
depMarkers(s, i) ==
  IF i > Len(s) THEN <<>>
  ELSE IF dataviewRegexEnd(s, i) # 0
       THEN <<splitComma(GroupOf(s, i, dataviewRegexEnd(s, i), DependsOnOpen, "]]"))>>
              \o depMarkers(s, dataviewRegexEnd(s, i))
  ELSE IF csvRegexEnd(s, i) # 0
       THEN <<splitComma(GroupOf(s, i, csvRegexEnd(s, i), EmojiStop, ""))>>
              \o depMarkers(s, csvRegexEnd(s, i))
  ELSE depMarkers(s, i + 1)

RECURSIVE Flatten(_)
Flatten(lists) == IF Len(lists) = 0 THEN <<>> ELSE lists[1] \o Flatten(Tail(lists))

Count(seq, x) == Cardinality({i \in 1..Len(seq) : seq[i] = x})

InitDep ==
  /\ \E suffix \in DepSuffixes, eol \in Eols, shape \in {1, 3} :
       /\ content = InlineDoc(shape, TaskLine("", " ", suffix), eol)
       /\ task = [id |-> "n.md:1", text |-> "buy" \o suffix, type |-> "inline", link |-> DocPath]
       /\ added = [ids |-> <<>>, fresh |-> depMarkers(suffix, 1) = <<>>]
  /\ linkingStyle \in Styles
  /\ before = content
  /\ last = NoOp
  /\ prior = NoPrior
  /\ steps = 0
  /\ CanvasIdle

\* addSignToTaskInFile(vault, task, "stop", hash, linkingStyle)
AddStop ==
  \E hash \in Hashes :
    /\ steps < MaxAdds
    /\ content' = addSignToTaskInFile(task, "stop", hash, linkingStyle, content)
    /\ before' = content
    /\ last' = [op |-> "addStop", arg |-> hash]
    /\ prior' = [op |-> last.op, arg |-> last.arg, text |-> before]
    /\ added' = IF added.fresh /\ ~Has(added.ids, hash)
                THEN [added EXCEPT !.ids = @ \o <<hash>>]
                ELSE NoAdds
    /\ steps' = steps + 1
    /\ UNCHANGED <<task, linkingStyle>>
    /\ UNCHANGED canvasVars

\* removeSignFromTaskInFile(vault, task, "stop", hash)
RemoveStop ==
  \E hash \in Hashes :
    /\ steps < MaxAdds
    /\ content' = removeSignFromTaskInFile(task, "stop", hash, content)
    /\ before' = content
    /\ last' = [op |-> "removeStop", arg |-> hash]
    /\ prior' = [op |-> last.op, arg |-> last.arg, text |-> before]
    /\ added' = NoAdds
    /\ steps' = steps + 1
    /\ UNCHANGED <<task, linkingStyle>>
    /\ UNCHANGED canvasVars

NextDep == AddStop \/ RemoveStop

SpecDep == InitDep /\ [][NextDep]_vars

\* C2: for each linking style and any located line, adding dependency id h
\* twice yields the same text as adding it once, and afterwards h occurs
\* exactly once among the dependency markers of the line.
C2_AddDependencyOnce ==
  \A hash \in Hashes :
    LET once == addSignToTaskInFile(task, "stop", hash, linkingStyle, content)
        twice == addSignToTaskInFile(task, "stop", hash, linkingStyle, once)
        k == SignLineIn(content)
    IN k # 0 =>
         /\ twice = once
         /\ Count(Flatten(depMarkers(split(once)[k], 1)), hash) = 1

\* C3: under the csv style, adding id c to a located line that carries only
\* individual markers (two or more, none of them for c) yields exactly one
\* marker, listing the old ids and then c; when the line carries one csv
\* marker, c is appended to that marker's list.
C3_CsvConversion ==
  LET k == SignLineIn(before)
      old == depMarkers(split(before)[k], 1)
      new == depMarkers(split(content)[k], 1)
      fresh == ~Has(Flatten(old), last.arg)
      dataviewForm == \/ Test(split(before)[k], IdFieldEnd)
                      \/ Test(split(before)[k], dataviewRegexEnd)
  IN (/\ last.op = "addStop" /\ linkingStyle = "csv"
      /\ k # 0 /\ ~dataviewForm /\ fresh)
     => /\ (Len(old) >= 2 /\ \A m \in 1..Len(old) : Len(old[m]) = 1)
             => new = <<Flatten(old) \o <<last.arg>>>>
        /\ (Len(old) = 1 /\ Len(old[1]) >= 2)
             => new = <<old[1] \o <<last.arg>>>>

\* C4: under the dataview style, adding an id to a located line that
\* carries an emoji dependency marker updates that marker in place: the
\* line has as many dependency markers afterwards as before.
C4_DataviewUpdatesInPlace ==
  LET k == SignLineIn(before)
      old == split(before)[k]
      new == split(content)[k]
  IN (/\ last.op = "addStop" /\ linkingStyle = "dataview"
      /\ k # 0
      /\ Test(old, csvRegexEnd))
     => Len(depMarkers(new, 1)) = Len(depMarkers(old, 1))

\* decoding the dependency ids of a line by the marker grammar of a dialect
decode(style, line) ==
  CASE style = "individual" ->
         LET ms == matchAll(line, individualRegexEnd, 1)
         IN [m \in 1..Len(ms) |-> ms[m].id]
    [] style = "csv" ->
         LET m == MatchFrom(line, csvRegexEnd, 1)
         IN IF m = 0 THEN <<>>
            ELSE splitComma(GroupOf(line, m, csvRegexEnd(line, m), EmojiStop, ""))
    [] style = "dataview" ->
         LET m == MatchFrom(line, dataviewRegexEnd, 1)
         IN IF m = 0 THEN <<>>
            ELSE splitComma(GroupOf(line, m, dataviewRegexEnd(line, m), DependsOnOpen, "]]"))

\* C5 as claimed: distinct ids added one at a time under dialect D to a
\* located line without dependency marker decode, by the grammar of D, to
\* those ids in insertion order.
C5_RoundTripAnyLine ==
  LET k == SignLineIn(content)
  IN (added.fresh /\ Len(added.ids) >= 1 /\ k # 0)
     => decode(linkingStyle, split(content)[k]) = added.ids

\* C5 as amended: the same, for a line that carries no structured own-id
\* field [[id:: ...]] unless D is dataview.
C5_RoundTrip ==
  LET k == SignLineIn(content)
  IN (/\ added.fresh /\ Len(added.ids) >= 1 /\ k # 0
      /\ (linkingStyle = "dataview" \/ ~Test(split(content)[k], IdFieldEnd)))
     => decode(linkingStyle, split(content)[k]) = added.ids

\* C5 witness: three ids were added under the csv style to a line that
\* carried an own id in emoji form and no dependency marker.
C5_Witness ==
  /\ added.fresh /\ Len(added.ids) = 3
  /\ linkingStyle = "csv"
  /\ SignLineIn(content) # 0
  /\ Includes(content, EmojiId \o " ddd444")

----------------------------------------------------------------------------
(* Note tasks: the specification of the frontmatter mutations.             *)

\* frontmatter fields a note may carry between the boundaries
NoteFields ==
  {<<"status: open">>,
   <<"status: open", "priority: high", "tags:", "  - task", "  - x">>,
   <<"status: done", "starred: false", "tags:", "  - task", "blockedBy:",
     "  - uid: \"[[f]]\"", "    reltype: FINISHTOSTART">>}

RECURSIVE joinEol(_, _)
joinEol(lines, eol) ==
  IF Len(lines) = 0 THEN ""
  ELSE IF Len(lines) = 1 THEN lines[1]
  ELSE lines[1] \o eol \o joinEol(Tail(lines), eol)

\* A note: well formed (1), without opening boundary (2), with the first
\* line not exactly the boundary (3), without closing boundary (4).
NoteDoc(shape, fields, eol) ==
  CASE shape = 1 -> joinEol(<<"---">> \o fields \o <<"---", "body", "">>, eol)
    [] shape = 2 -> joinEol(<<"intro", "---">> \o fields \o <<"---", "body">>, eol)
    [] shape = 3 -> joinEol(<<"--- ">> \o fields \o <<"---", "body">>, eol)
    [] shape = 4 -> joinEol(<<"---">> \o fields \o <<"body", "">>, eol)

NoteTask == [id |-> DocPath, text |-> "n", type |-> "note", link |-> DocPath]

\* the tasks a note can be made to depend on
FromTasks ==
  {[id |-> "d/f.md", text |-> "f", type |-> "note", link |-> "d/f.md"],
   [id |-> "g.md", text |-> "g", type |-> "note", link |-> "g.md"]}

InitNote ==
  /\ \E shape \in 1..4, fields \in NoteFields, eol \in Eols :
       content = NoteDoc(shape, fields, eol)
  /\ task = NoteTask
  /\ linkingStyle = "csv"
  /\ before = content
  /\ last = NoOp
  /\ prior = NoPrior
  /\ added = NoAdds
  /\ steps = 0
  /\ CanvasIdle

\* addLinkSignsBetweenTasks towards a note task: addDependencyToNoteTask
AddNoteDependency ==
  \E from \in FromTasks :
    /\ steps < MaxSteps
    /\ task.type = "note"
    /\ content' = addDependencyToNoteTask(task, from, content)
    /\ Applied("addDependency", from.id)

\* removeLinkSignsBetweenTasks towards a note task: removeDependencyFromNoteTask
RemoveNoteDependency ==
  \E from \in FromTasks :
    /\ steps < MaxSteps
    /\ task.type = "note"
    /\ content' = removeDependencyFromNoteTask(task, from.id, content)
    /\ Applied("removeDependency", from.id)

NextNote ==
  \/ SetStatus \/ AddTag \/ RemoveTag \/ AddStar \/ RemoveStar
  \/ AddNoteDependency \/ RemoveNoteDependency

SpecNote == InitNote /\ [][NextNote]_vars

\* text has no frontmatter block: its first line is not the boundary, or
\* no later line is
NoBlock(text) ==
  LET lines == split(text)
  IN lines[1] # "---" \/ \A i \in 2..Len(lines) : lines[i] # "---"

\* C8: on a note whose document has no frontmatter block or an
\* unterminated one, every note mutation returns the document text
\* unchanged, character for character.
C8_MalformedNoteIsNoOp ==
  (last.op # "none" /\ task.type = "note" /\ NoBlock(before)) => content = before

\* C8 witness: a dependency was added to a CRLF note whose block is not
\* terminated.
C8_Witness ==
  /\ last.op = "addDependency"
  /\ NoBlock(before)
  /\ StartsWithAt(before, 1, "---\r\n")
  /\ content = before

----------------------------------------------------------------------------
(* The canvas of the graph view and its persisted snapshot.                *)
(* An optional field (taskData?) is a sequence of length 0 or 1.           *)

MaxSavedNodes == 2
MaxSavedEdges == 1

NodeIds == {"n.md:1", "n.md:2"}
Positions == {[x |-> 0, y |-> 0], [x |-> 40, y |-> 70]}

\* the task a node carries, as saveGraphDataImmediate stores it in taskData
TaskOf(id) == [id |-> id, type |-> "inline", text |-> "buy", status |-> "todo"]

\* SavedNodeData
SavedNodes ==
  {[id |-> id, position |-> pos, taskId |-> id,
    taskData |-> IF has THEN <<TaskOf(id)>> ELSE <<>>] :
     id \in NodeIds, pos \in Positions, has \in BOOLEAN}

\* SavedEdgeData
SavedEdges ==
  {[id |-> src \o "-" \o tgt, source |-> src, target |-> tgt] :
     src \in NodeIds, tgt \in NodeIds}

SeqsUpTo(S, n) == UNION {[1..k -> S] : k \in 0..n}

\* A faulty restoredNodes that places every restored node at the origin; C10 tells it from the real one.
restoredNodesAtOrigin(savedData) ==
  LET kept == SelectSeq(savedData.nodes, LAMBDA n : n.taskData # <<>>)
  IN [i \in 1..Len(kept) |->
        [id |-> kept[i].id, position |-> [x |-> 0, y |-> 0], task |-> kept[i].taskData[1]]]

\* savedData.nodes.filter((n) => n.taskData).map(...)
restoredNodes(savedData) ==
  LET kept == SelectSeq(savedData.nodes, LAMBDA n : n.taskData # <<>>)
  IN [i \in 1..Len(kept) |->
        [id |-> kept[i].id, position |-> kept[i].position, task |-> kept[i].taskData[1]]]

\* savedData.edges.map(...)
restoredEdges(savedData) ==
  [j \in 1..Len(savedData.edges) |->
     [id |-> savedData.edges[j].id,
      source |-> savedData.edges[j].source,
      target |-> savedData.edges[j].target,
      hash |-> savedData.edges[j].id]]

\* The snapshot is what loadAllData read from the plugin's data file; the
\* tasks are what getAllTasks parsed (loadInitialData); the canvas is empty.
InitCanvas ==
  /\ saved \in [nodes : SeqsUpTo(SavedNodes, MaxSavedNodes),
                edges : SeqsUpTo(SavedEdges, MaxSavedEdges)]
  /\ tasks \in {<<>>, <<TaskOf("n.md:1")>>}
  /\ nodes = <<>>
  /\ edges = <<>>
  /\ TimersIdle
  /\ shown = NoTags
  /\ built = <<>>
  /\ scans = <<>>
  /\ isLoading = FALSE
  /\ content = "" /\ before = ""
  /\ task = ForeignTask
  /\ linkingStyle = "csv"
  /\ last = NoOp
  /\ prior = NoPrior
  /\ added = NoAdds
  /\ steps = 0

\* loadSavedData: called by loadInitialData and by the overlay's button
LoadSavedData ==
  /\ steps < MaxSteps
  /\ IF Len(saved.nodes) = 0
     THEN UNCHANGED <<nodes, edges>>
     ELSE /\ nodes' = restoredNodes(saved)
          /\ edges' = restoredEdges(saved)
  /\ last' = [op |-> "load", arg |-> ""]
  /\ steps' = steps + 1
  /\ wrote' = FALSE
  /\ UNCHANGED <<saved, tasks, mounted, debounce, kicks, elapsed, shown, built, scans, isLoading>>
  /\ UNCHANGED <<content, task, linkingStyle, before, prior, added>>

NextCanvas == LoadSavedData

SpecCanvas == InitCanvas /\ [][NextCanvas]_vars

\* C10 as claimed: after a load, every node of the saved snapshot is on the
\* canvas with its saved id and position, with or without taskData, and
\* every saved edge is there with its saved id, source and target.
C10_LoadRestoresEveryNode ==
  last.op = "load" =>
    /\ \A i \in 1..Len(saved.nodes) :
         \E k \in 1..Len(nodes) :
           /\ nodes[k].id = saved.nodes[i].id
           /\ nodes[k].position = saved.nodes[i].position
    /\ \A j \in 1..Len(saved.edges) :
         \E k \in 1..Len(edges) :
           /\ edges[k].id = saved.edges[j].id
           /\ edges[k].source = saved.edges[j].source
           /\ edges[k].target = saved.edges[j].target

\* the indices of the saved nodes that carry taskData, in order
RECURSIVE WithTaskData(_, _)
WithTaskData(savedNodes, i) ==
  IF i > Len(savedNodes) THEN <<>>
  ELSE IF Len(savedNodes[i].taskData) = 1 THEN <<i>> \o WithTaskData(savedNodes, i + 1)
  ELSE WithTaskData(savedNodes, i + 1)

\* C10 as amended: after a load of a snapshot that has at least one node,
\* the canvas holds exactly the saved nodes that carry taskData, in order,
\* each with its saved id, position and task, whether or not a freshly
\* parsed task has that id, and exactly the saved edges, each with its
\* saved id, source and target.
C10_LoadRestoresNodesWithData ==
  LET kept == WithTaskData(saved.nodes, 1)
  IN (last.op = "load" /\ Len(saved.nodes) > 0) =>
       /\ Len(nodes) = Len(kept)
       /\ \A k \in 1..Len(kept) :
            /\ nodes[k].id = saved.nodes[kept[k]].id
            /\ nodes[k].position = saved.nodes[kept[k]].position
            /\ nodes[k].task = saved.nodes[kept[k]].taskData[1]
       /\ Len(edges) = Len(saved.edges)
       /\ \A j \in 1..Len(saved.edges) :
            /\ edges[j].id = saved.edges[j].id
            /\ edges[j].source = saved.edges[j].source
            /\ edges[j].target = saved.edges[j].target

\* C10 witness: a snapshot of two nodes and one edge was loaded; the node
\* without taskData is gone, the other one is at its saved position
\* although no freshly parsed task has its id.
C10_Witness ==
  /\ last.op = "load"
  /\ Len(saved.nodes) = 2 /\ Len(saved.edges) = 1
  /\ saved.nodes[1].taskData = <<>>
  /\ saved.nodes[2].id = "n.md:2"
  /\ Len(nodes) = 1
  /\ nodes[1].position = [x |-> 40, y |-> 70]
  /\ \A i \in 1..Len(tasks) : tasks[i].id # nodes[1].id
  /\ Len(edges) = 1

----------------------------------------------------------------------------
(* The graph view while mounted: refresh, canvas edits, the debounced save *)
(* and the teardown.  Time is counted in milliseconds and advances in      *)
(* steps of KickDelay; a timer that is due fires before time advances.     *)
(* The viewport of the snapshot is left out.                               *)

KickDelay == 100
SaveDelay == 200

RECURSIVE ToStr(_)
\* `${index}`
ToStr(n) ==
  IF n < 10 THEN SubSeq("0123456789", n + 1, n + 1)
  ELSE ToStr(n \div 10) \o SubSeq("0123456789", (n % 10) + 1, (n % 10) + 1)

RECURSIVE splitLf(_)
\* content.split("\n")
splitLf(s) ==
  LET i == IndexOf(s, "\n")
  IN IF i = 0 THEN <<s>> ELSE <<Upto(s, i - 1)>> \o splitLf(From(s, i + 1))

\* line.replace(/^[\s]*- \[.\]\s*/, "")
stripCheckbox(line) ==
  LET p == taskMatch(line)
  IN IF p = 0 THEN line ELSE From(line, SkipSpace(line, p + 2))

\* factory.parse(rawTask) of a scanned line, with the id the scan gives it
scannedTask(line, index) ==
  [id |-> DocPath \o ":" \o ToStr(index),
   type |-> "inline",
   text |-> stripCheckbox(line),
   status |-> parseStatus(CharAt(line, taskMatch(line)))]

RECURSIVE scanLines(_, _)
scanLines(lines, i) ==
  IF i > Len(lines) THEN <<>>
  ELSE IF taskMatch(lines[i]) # 0
       THEN <<scannedTask(lines[i], i - 1)>> \o scanLines(lines, i + 1)
  ELSE scanLines(lines, i + 1)

\* scanTasksFromFiles, the one document of the vault being in the tasks folder
scanTasksFromFiles(fileContent) == scanLines(splitLf(fileContent), 1)

\* scannedTasks.find((t) => t.id === id), as a sequence of length 0 or 1
findTask(list, id) ==
  LET hits == SelectSeq(list, LAMBDA t : t.id = id)
  IN IF Len(hits) = 0 THEN <<>> ELSE <<hits[1]>>

\* A faulty refreshedNodes that gives the k-th node the k-th scanned task,
\* whatever its id; C21 tells it from the real one.
refreshedNodesByIndex(currentNodes, scannedTasks) ==
  [k \in 1..Len(currentNodes) |->
     IF k <= Len(scannedTasks)
     THEN [currentNodes[k] EXCEPT !.task = scannedTasks[k]]
     ELSE currentNodes[k]]

\* A faulty refreshedNodes that drops the nodes no scanned task matches; C11
\* tells it from the real one.
refreshedNodesPruned(currentNodes, scannedTasks) ==
  LET kept == SelectSeq(currentNodes, LAMBDA n : findTask(scannedTasks, n.id) # <<>>)
  IN [k \in 1..Len(kept) |-> [kept[k] EXCEPT !.task = findTask(scannedTasks, kept[k].id)[1]]]

\* the updater updateNodes passes to setNodes
refreshedNodes(currentNodes, scannedTasks) ==
  [k \in 1..Len(currentNodes) |->
     LET updatedTask == findTask(scannedTasks, currentNodes[k].id)
     IN IF updatedTask # <<>>
        THEN [currentNodes[k] EXCEPT !.task = updatedTask[1]]
        ELSE currentNodes[k]]

\* the graphData saveGraphDataImmediate hands to plugin.saveGraphData
snapshotOf(currentNodes, currentEdges) ==
  [nodes |-> [k \in 1..Len(currentNodes) |->
                [id |-> currentNodes[k].id,
                 position |-> currentNodes[k].position,
                 taskId |-> currentNodes[k].id,
                 taskData |-> <<currentNodes[k].task>>]],
   edges |-> [k \in 1..Len(currentEdges) |->
                [id |-> currentEdges[k].id,
                 source |-> currentEdges[k].source,
                 target |-> currentEdges[k].target]]]

\* `${params.source}-${params.target}`, `${parentTaskId}-${task.id}`
edgeId(source, target) == source \o "-" \o target

hashEdge(source, target) ==
  [id |-> edgeId(source, target), source |-> source, target |-> target,
   hash |-> edgeId(source, target)]

\* reactflow's addEdge: a connection that exists already is not added again
addEdge(edge, eds) ==
  IF \E k \in 1..Len(eds) : eds[k].source = edge.source /\ eds[k].target = edge.target
  THEN eds ELSE eds \o <<edge>>

SavedA ==
  [id |-> "n.md:1", position |-> [x |-> 40, y |-> 70], taskId |-> "n.md:1",
   taskData |-> <<TaskOf("n.md:1")>>]
SavedB ==
  [id |-> "n.md:2", position |-> [x |-> 0, y |-> 0], taskId |-> "n.md:2",
   taskData |-> <<TaskOf("n.md:2")>>]

\* snapshots the view itself has written: none yet, one node, two nodes and an edge
ViewSnapshots ==
  {NoSnapshot,
   [nodes |-> <<SavedA>>, edges |-> <<>>],
   [nodes |-> <<SavedA, SavedB>>,
    edges |-> <<[id |-> edgeId("n.md:1", "n.md:2"), source |-> "n.md:1", target |-> "n.md:2"]>>]}

ViewDocs == {"- [/] buy", "# h\n- [x] buy #x"}

InitView ==
  /\ saved \in ViewSnapshots
  /\ content \in ViewDocs
  /\ tasks \in {<<>>, <<TaskOf("n.md:1")>>}
  /\ nodes = <<>>
  /\ edges = <<>>
  /\ TimersIdle
  /\ shown = NoTags
  /\ built = <<>>
  /\ scans = <<>>
  /\ isLoading = FALSE
  /\ before = content
  /\ task = ForeignTask
  /\ linkingStyle = "csv"
  /\ last = NoOp
  /\ prior = NoPrior
  /\ added = NoAdds
  /\ steps = 0

\* bookkeeping of one user operation on the canvas
CanvasOp(op, arg) ==
  /\ last' = [op |-> op, arg |-> arg]
  /\ steps' = steps + 1
  /\ wrote' = FALSE
  /\ UNCHANGED <<saved, mounted, shown, built, scans, isLoading>>
  /\ UNCHANGED <<content, task, linkingStyle, before, prior, added>>

\* setTimeout(() => saveGraphData(), 100)
Kick ==
  /\ kicks' = Append(kicks, KickDelay)
  /\ UNCHANGED <<debounce, elapsed>>

\* the overlay's load button, and loadInitialData
ViewLoad ==
  /\ mounted
  /\ LoadSavedData

\* updateNodes
UpdateNodes ==
  /\ mounted
  /\ steps < MaxSteps
  /\ tasks' = scanTasksFromFiles(content)
  /\ nodes' = refreshedNodes(nodes, scanTasksFromFiles(content))
  /\ UNCHANGED edges
  /\ Kick
  /\ CanvasOp("updateNodes", "")

\* addTaskToCanvas(taskId, position, taskData), from a drop of the sidebar
\* addTaskToCanvas without the test for a node with that id
AddTaskToCanvasUnchecked ==
  \E taskId \in NodeIds, position \in Positions :
    /\ mounted
    /\ steps < MaxSteps
    /\ nodes' = Append(nodes, [id |-> taskId, position |-> position,
                               task |-> TaskOf(taskId)])
    /\ Kick
    /\ UNCHANGED <<edges, tasks>>
    /\ CanvasOp("addTask", taskId)

AddTaskToCanvas ==
  \E taskId \in NodeIds, position \in Positions, withData \in BOOLEAN :
    LET taskData == IF withData THEN <<TaskOf(taskId)>> ELSE <<>>
        found == IF findTask(tasks, taskId) # <<>> THEN findTask(tasks, taskId) ELSE taskData
    IN /\ mounted
       /\ steps < MaxSteps
       /\ IF found = <<>> \/ (\E k \in 1..Len(nodes) : nodes[k].id = found[1].id)
          THEN UNCHANGED <<nodes, kicks, debounce, elapsed>>
          ELSE /\ nodes' = Append(nodes, [id |-> found[1].id, position |-> position,
                                          task |-> found[1]])
               /\ Kick
       /\ UNCHANGED <<edges, tasks>>
       /\ CanvasOp(IF found = <<>> \/ (\E k \in 1..Len(nodes) : nodes[k].id = found[1].id)
                   THEN "addTaskRejected" ELSE "addTask", taskId)

\* deleteNode(contextMenu.nodeId)
\* deleteNode without the filter of the edges
DeleteNodeKeepingEdges ==
  \E k \in 1..Len(nodes) :
    /\ mounted
    /\ steps < MaxSteps
    /\ nodes' = SelectSeq(nodes, LAMBDA n : n.id # nodes[k].id)
    /\ UNCHANGED <<edges, tasks>>
    /\ Kick
    /\ CanvasOp("deleteNode", nodes[k].id)

DeleteNode ==
  \E k \in 1..Len(nodes) :
    /\ mounted
    /\ steps < MaxSteps
    /\ nodes' = SelectSeq(nodes, LAMBDA n : n.id # nodes[k].id)
    /\ edges' = SelectSeq(edges, LAMBDA e : e.source # nodes[k].id /\ e.target # nodes[k].id)
    /\ UNCHANGED tasks
    /\ Kick
    /\ CanvasOp("deleteNode", nodes[k].id)

\* onDeleteSelectedEdge, the selected edge being one of the canvas
OnDeleteSelectedEdge ==
  \E k \in 1..Len(edges) :
    /\ mounted
    /\ steps < MaxSteps
    /\ edges' = SelectSeq(edges, LAMBDA e : e.id # edges[k].id)
    /\ UNCHANGED <<nodes, tasks>>
    /\ Kick
    /\ CanvasOp("deleteEdge", edges[k].id)

\* onConnect(params), drawn between two nodes of the canvas
OnConnect ==
  \E i \in 1..Len(nodes), j \in 1..Len(nodes) :
    /\ mounted
    /\ steps < MaxSteps
    /\ edges' = addEdge(hashEdge(nodes[i].id, nodes[j].id), edges)
    /\ UNCHANGED <<nodes, tasks>>
    /\ Kick
    /\ CanvasOp("connect", edgeId(nodes[i].id, nodes[j].id))

\* handleNodesChange with a position change that ends a drag
MoveNode ==
  \E k \in 1..Len(nodes), position \in Positions :
    /\ mounted
    /\ steps < MaxSteps
    /\ nodes' = [nodes EXCEPT ![k].position = position]
    /\ UNCHANGED <<edges, tasks, kicks>>
    /\ debounce' = SaveDelay
    /\ elapsed' = 0
    /\ CanvasOp("move", nodes[k].id)

TimerOps == {"tick", "kick", "saveTimer", "unmount"}

\* the user operation a behaviour performed last
lastUserOp == IF last.op \in TimerOps THEN last.arg ELSE last.op

\* what a timer event leaves alone; it is recorded with the user operation
\* before it
TimerEvent(op) ==
  /\ last' = [op |-> op, arg |-> lastUserOp]
  /\ UNCHANGED <<nodes, edges, tasks, mounted, shown, built, scans, isLoading, steps>>
  /\ UNCHANGED <<content, task, linkingStyle, before, prior, added>>

\* time passes: no timer is due, one at least is pending
Tick ==
  /\ debounce # 0
  /\ \A k \in 1..Len(kicks) : kicks[k] # 0
  /\ debounce # NoTimer \/ kicks # <<>>
  /\ debounce' = IF debounce = NoTimer THEN NoTimer ELSE debounce - KickDelay
  /\ kicks' = [k \in 1..Len(kicks) |-> kicks[k] - KickDelay]
  /\ elapsed' = IF elapsed > SaveDelay THEN elapsed ELSE elapsed + KickDelay
  /\ wrote' = FALSE
  /\ UNCHANGED saved
  /\ TimerEvent("tick")

\* a 100 ms timer fires: the debounced saveGraphData clears the pending
\* timer and starts a new one
KickFires ==
  /\ kicks # <<>>
  /\ Head(kicks) = 0
  /\ kicks' = Tail(kicks)
  /\ debounce' = SaveDelay
  /\ elapsed' = 0
  /\ wrote' = FALSE
  /\ UNCHANGED saved
  /\ TimerEvent("kick")

\* saveGraphDataImmediate followed by plugin.saveGraphData
savedAfter(currentNodes, currentEdges, previous) ==
  IF Len(currentNodes) = 0 THEN previous ELSE snapshotOf(currentNodes, currentEdges)

\* the debounce timer fires: saveGraphDataImmediate
SaveTimerFires ==
  /\ debounce = 0
  /\ debounce' = NoTimer
  /\ saved' = savedAfter(nodes, edges, saved)
  /\ wrote' = (Len(nodes) # 0)
  /\ UNCHANGED <<kicks, elapsed>>
  /\ TimerEvent("saveTimer")

\* the cleanup of the mount effect: the view is closed or switched
Unmount ==
  /\ mounted
  /\ mounted' = FALSE
  /\ debounce' = NoTimer
  /\ saved' = savedAfter(nodes, edges, saved)
  /\ wrote' = (Len(nodes) # 0)
  /\ last' = [op |-> "unmount", arg |-> lastUserOp]
  /\ UNCHANGED <<nodes, edges, tasks, kicks, elapsed, shown, built, scans, isLoading, steps>>
  /\ UNCHANGED <<content, task, linkingStyle, before, prior, added>>

NextView ==
  \/ ViewLoad \/ UpdateNodes \/ AddTaskToCanvas \/ DeleteNode
  \/ OnDeleteSelectedEdge \/ OnConnect \/ MoveNode
  \/ Tick \/ KickFires \/ SaveTimerFires \/ Unmount

SpecView == InitView /\ [][NextView]_vars

----------------------------------------------------------------------------
(* Properties of the graph view.                                           *)

\* C11: a refresh (updateNodes) leaves the number of nodes, every node's id
\* and position and the edge list unchanged; a node whose id is the id of a
\* freshly scanned task gets that task as its payload, and a node no
\* scanned task matches keeps its previous payload.
C11_RefreshFrame ==
  [][last'.op = "updateNodes" =>
       /\ Len(nodes') = Len(nodes)
       /\ edges' = edges
       /\ \A k \in 1..Len(nodes) :
            /\ nodes'[k].id = nodes[k].id
            /\ nodes'[k].position = nodes[k].position
            /\ IF \E i \in 1..Len(tasks') : tasks'[i].id = nodes[k].id
               THEN \E i \in 1..Len(tasks') :
                      tasks'[i].id = nodes[k].id /\ nodes'[k].task = tasks'[i]
               ELSE nodes'[k].task = nodes[k].task]_vars

\* C11 witness: after a refresh the canvas holds its two nodes and its edge;
\* the first node, still at its place, carries the scanned task (done), the
\* second, which no scanned task matches, carries its old payload.
C11_Witness ==
  /\ last.op = "updateNodes"
  /\ Len(nodes) = 2 /\ Len(edges) = 1
  /\ nodes[1].id = "n.md:1"
  /\ nodes[1].position = [x |-> 40, y |-> 70]
  /\ nodes[1].task.status = "done"
  /\ nodes[2].task = TaskOf("n.md:2")
  /\ \A i \in 1..Len(tasks) : tasks[i].id # "n.md:2"

EditOps == {"addTask", "deleteNode", "connect", "deleteEdge", "move"}

IdsOf(seq) == {seq[k].id : k \in 1..Len(seq)}

\* C12: once the saves have quiesced after an add-node, delete-node,
\* connect, delete-edge or move operation (the debounce timer has fired and
\* no save is pending), the node set and the edge set of the persisted
\* snapshot are those of the canvas.
C12_SnapshotIsCanvas ==
  (last.op = "saveTimer" /\ kicks = <<>> /\ lastUserOp \in EditOps) =>
    /\ IdsOf(saved.nodes) = IdsOf(nodes)
    /\ IdsOf(saved.edges) = IdsOf(edges)

\* C13: the teardown of the view, after the canvas was edited, cancels the
\* pending debounced save and writes one snapshot of the current canvas,
\* whatever it holds.
C13_TeardownWrites ==
  (last.op = "unmount" /\ lastUserOp \in EditOps) =>
    /\ debounce = NoTimer
    /\ wrote
    /\ IdsOf(saved.nodes) = IdsOf(nodes)
    /\ IdsOf(saved.edges) = IdsOf(edges)

\* C14: when the debounce timer fires after the save requests of canvas
\* edits, SaveDelay has passed since the last request, one snapshot is
\* written, and it carries the canvas as it is at that time.
C14_DebouncedWrite ==
  (last.op = "saveTimer" /\ lastUserOp \in EditOps) =>
    /\ elapsed = SaveDelay
    /\ wrote
    /\ Len(saved.nodes) = Len(nodes)
    /\ \A k \in 1..Len(nodes) :
         /\ saved.nodes[k].id = nodes[k].id
         /\ saved.nodes[k].position = nodes[k].position
    /\ IdsOf(saved.edges) = IdsOf(edges)

----------------------------------------------------------------------------
(* A task node: its displayed tags and star, and the handlers that change  *)
(* them ahead of the document mutation they await.                         *)

\* the tags and the star of the task a line "- [ ] buy<suffix>" parses to
NodeSuffixes == {"", " #x", " #x #y", " *"}

tagsOf(suffix) ==
  CASE suffix = " #x" -> <<"x">>
    [] suffix = " #x #y" -> <<"x", "y">>
    [] OTHER -> <<>>

NodeTask(suffix) ==
  [id |-> "n.md:1", text |-> "buy" \o suffix, type |-> "inline", link |-> DocPath,
   tags |-> tagsOf(suffix), starred |-> Includes(suffix, EmojiStar)]

\* a node whose payload is stale: its text is on no line of the document
StaleTask ==
  [id |-> "n.md:7", text |-> "call", type |-> "inline", link |-> DocPath,
   tags |-> <<"x">>, starred |-> FALSE]

\* what the tag input hands to handleAddTag
TagInputs == {"z", "#z", "x", "a b", ""}

RECURSIVE stripHashes(_)
\* s.replace(/^#+/, "")
stripHashes(s) == IF Len(s) > 0 /\ CharAt(s, 1) = "#" THEN stripHashes(From(s, 2)) ELSE s

InitNode ==
  /\ \E suffix \in NodeSuffixes, shape \in 1..2 :
       /\ content = InlineDoc(shape, TaskLine("", " ", suffix), "\n")
       /\ task \in {NodeTask(suffix), StaleTask}
  /\ shown = [tags |-> task.tags, starred |-> task.starred, awaiting |-> NoOp,
              was |-> [tags |-> task.tags, starred |-> task.starred]]
  /\ linkingStyle = "csv"
  /\ before = content
  /\ last = NoOp
  /\ prior = NoPrior
  /\ added = NoAdds
  /\ steps = 0
  /\ saved = NoSnapshot /\ nodes = <<>> /\ edges = <<>> /\ tasks = <<>>
  /\ TimersIdle
  /\ built = <<>>
  /\ scans = <<>>
  /\ isLoading = FALSE

\* the handler has changed the displayed value and awaits the mutation
Awaiting(op, arg, tags, starred) ==
  /\ shown' = [tags |-> tags, starred |-> starred,
               awaiting |-> [op |-> op, arg |-> arg],
               was |-> [tags |-> shown.tags, starred |-> shown.starred]]
  /\ last' = [op |-> "await", arg |-> op]
  /\ steps' = steps + 1
  /\ UNCHANGED <<content, task, linkingStyle, before, prior, added>>
  /\ UNCHANGED <<saved, nodes, edges, tasks, timerVars, built, scans, isLoading>>

\* handleTagRemove up to its await, from the remove button of a displayed tag
HandleTagRemove ==
  \E k \in 1..Len(shown.tags) :
    /\ shown.awaiting = NoOp
    /\ steps < MaxSteps
    /\ Awaiting("removeTag", shown.tags[k],
                SelectSeq(shown.tags, LAMBDA tag : tag # shown.tags[k]), shown.starred)

\* handleAddTag up to its await; input that is empty, holds a space or is
\* displayed already is turned down
HandleAddTag ==
  \E tagToAdd \in TagInputs :
    LET cleanTag == stripHashes(Trim(tagToAdd))
    IN /\ shown.awaiting = NoOp
       /\ steps < MaxSteps
       /\ Trim(tagToAdd) # ""
       /\ ~Includes(tagToAdd, " ")
       /\ ~Has(shown.tags, cleanTag)
       /\ Awaiting("addTag", cleanTag, Append(shown.tags, cleanTag), shown.starred)

\* handleStarToggle up to its await
HandleStarToggle ==
  /\ shown.awaiting = NoOp
  /\ steps < MaxSteps
  /\ Awaiting(IF shown.starred THEN "removeStar" ELSE "addStar", "", shown.tags, ~shown.starred)

\* the document text the awaited mutation leaves
mutated(op, arg, fileContent) ==
  CASE op = "removeTag" -> removeTagFromTaskInVault(task, arg, fileContent)
    [] op = "addTag" -> addTagToTaskInVault(task, arg, fileContent)
    [] op = "addStar" -> addStarToTaskInVault(task, fileContent)
    [] op = "removeStar" -> removeStarFromTaskInVault(task, fileContent)

\* the displayed value after the catch block of the handler
reverted(op, arg, tags, starred) ==
  CASE op = "removeTag" -> [tags |-> Append(tags, arg), starred |-> starred]
    [] op = "addTag" -> [tags |-> SelectSeq(tags, LAMBDA tag : tag # arg), starred |-> starred]
    [] op = "addStar" -> [tags |-> tags, starred |-> FALSE]
    [] op = "removeStar" -> [tags |-> tags, starred |-> TRUE]

\* the awaited mutation resolves, or the store throws and the catch block runs
Resolved ==
  \E throws \in BOOLEAN :
    LET op == shown.awaiting.op
        arg == shown.awaiting.arg
        kept == IF throws THEN reverted(op, arg, shown.tags, shown.starred)
                ELSE [tags |-> shown.tags, starred |-> shown.starred]
    IN /\ shown.awaiting # NoOp
       /\ content' = IF throws THEN content ELSE mutated(op, arg, content)
       /\ before' = content
       /\ shown' = [shown EXCEPT !.tags = kept.tags, !.starred = kept.starred,
                                 !.awaiting = NoOp]
       /\ last' = [op |-> op, arg |-> IF throws THEN "thrown" ELSE "resolved"]
       /\ prior' = [op |-> last.op, arg |-> last.arg, text |-> before]
       /\ UNCHANGED <<task, linkingStyle, added, steps>>
       /\ UNCHANGED <<saved, nodes, edges, tasks, timerVars, built, scans, isLoading>>

NextNode == HandleTagRemove \/ HandleAddTag \/ HandleStarToggle \/ Resolved

SpecNode == InitNode /\ [][NextNode]_vars

NodeOps == {"removeTag", "addTag", "addStar", "removeStar"}

SetOf(seq) == {seq[k] : k \in 1..Len(seq)}

\* C15: while a tag add, tag remove or star toggle awaits its mutation the
\* displayed value has changed already; when the mutation has failed - the
\* store threw, or the document text is as it was - the node displays the
\* tags and the star it displayed before the action.
C15_FailureReverts ==
  /\ shown.awaiting # NoOp =>
       (SetOf(shown.tags) # SetOf(shown.was.tags) \/ shown.starred # shown.was.starred)
  /\ (last.op \in NodeOps /\ content = before) =>
       /\ SetOf(shown.tags) = SetOf(shown.was.tags)
       /\ shown.starred = shown.was.starred

----------------------------------------------------------------------------
(* Two mutations of one document issued with the same task record.         *)

DocOps == {"setStatus", "addTag", "removeTag", "addStar", "removeStar"}

\* the line a mutation works on in text; 0 when it finds none
LocatedFor(op, text) ==
  IF op \in {"addTag", "removeTag"}
  THEN findTaskLineForTag(split(text), task)
  ELSE LocatedIn(text)

\* C16: of two mutations of the same document that were both issued with
\* the task record captured before either ran, the one that runs second
\* still works on the task's line, so that the final text reflects both:
\* no update is lost.
C16_NoLostUpdate ==
  (/\ prior.op \in DocOps /\ last.op \in DocOps
   /\ task.type = "inline"
   /\ LocatedIn(prior.text) # 0)
  => LocatedFor(last.op, before) = LocatedIn(prior.text)

----------------------------------------------------------------------------
(* The graph builder: createEdgesFromTasks over a batch of tasks, and      *)
(* onConnect between the nodes of that batch.                              *)

MaxLinks == 2
MaxBatch == 2

\* note tasks are identified by their file path, which may hold a '-'
BatchIds == {"a.md", "c.md", "b.md-c.md"}

\* what incomingLinks may name; no task of a batch is "a.md-b.md"
LinkIds == {"a.md", "a.md-b.md"}

BatchTask(id, links) ==
  [id |-> id, type |-> "note", text |-> "buy", status |-> "todo",
   incomingLinks |-> links]

BatchTasks ==
  {BatchTask(id, links) : id \in BatchIds, links \in SeqsUpTo(LinkIds, MaxLinks)}

\* batches of tasks with distinct ids
Batches ==
  {b \in SeqsUpTo(BatchTasks, MaxBatch) :
     \A i, j \in 1..Len(b) : i # j => b[i].id # b[j].id}

\* task.incomingLinks.forEach((parentTaskId) => edges.push({...})), from entry k
RECURSIVE pushLinks(_, _)
pushLinks(t, k) ==
  IF k > Len(t.incomingLinks) THEN <<>>
  ELSE <<hashEdge(t.incomingLinks[k], t.id)>> \o pushLinks(t, k + 1)

\* tasks.forEach((task) => ...), from task i
RECURSIVE pushTasks(_, _)
pushTasks(ts, i) ==
  IF i > Len(ts) THEN <<>>
  ELSE pushLinks(ts[i], 1) \o pushTasks(ts, i + 1)

\* A faulty createEdgesFromTasks that draws every edge from the task to its
\* parent; C18 tells it from the real one.
createEdgesFromTasksReversed(ts) ==
  LET es == pushTasks(ts, 1)
  IN [k \in 1..Len(es) |-> hashEdge(es[k].target, es[k].source)]

createEdgesFromTasks(ts) == pushTasks(ts, 1)

\* tasks.map((task, idx) => ({id: task.id, position: {x: 0, y: idx * 80}, data: {task}}))
createNodesFromTasks(ts) ==
  [i \in 1..Len(ts) |->
     [id |-> ts[i].id, position |-> [x |-> 0, y |-> (i - 1) * 80], task |-> ts[i]]]

InitBuild ==
  /\ tasks \in Batches
  /\ nodes = createNodesFromTasks(tasks)
  /\ edges = <<>>
  /\ built = <<>>
  /\ scans = <<>>
  /\ isLoading = FALSE
  /\ saved = NoSnapshot
  /\ TimersIdle
  /\ shown = NoTags
  /\ content = ""
  /\ before = content
  /\ task = ForeignTask
  /\ linkingStyle = "csv"
  /\ last = NoOp
  /\ prior = NoPrior
  /\ added = NoAdds
  /\ steps = 0

\* edges = createEdgesFromTasks(tasks)
CreateEdgesFromTasks ==
  /\ steps < MaxSteps
  /\ built' = createEdgesFromTasks(tasks)
  /\ UNCHANGED <<scans, isLoading>>
  /\ last' = [op |-> "createEdges", arg |-> ""]
  /\ steps' = steps + 1
  /\ UNCHANGED <<saved, nodes, edges, tasks, timerVars, shown>>
  /\ UNCHANGED <<content, task, linkingStyle, before, prior, added>>

NextBuild == CreateEdgesFromTasks \/ OnConnect

SpecBuild == InitBuild /\ [][NextBuild]_vars

\* the edges of the graph: those built from the batch, those drawn by hand
AllEdges == built \o edges

\* C17: any two edges whose (source, target) pairs differ have different
\* ids, whether the graph builder or connect computed them, also when the
\* task ids hold a '-'.
C17_EdgeIdsDistinct ==
  \A i, j \in 1..Len(AllEdges) :
    <<AllEdges[i].source, AllEdges[i].target>> # <<AllEdges[j].source, AllEdges[j].target>>
      => AllEdges[i].id # AllEdges[j].id

\* the number of incomingLinks entries of the tasks before task i
RECURSIVE LinksBefore(_, _)
LinksBefore(ts, i) ==
  IF i <= 1 THEN 0 ELSE LinksBefore(ts, i - 1) + Len(ts[i - 1].incomingLinks)

\* C18: the edges createEdgesFromTasks returns are, task by task and entry
\* by entry in order, one edge per incomingLinks entry p of a task, with
\* source p, target the task's id, and id and data marker p-<task id>;
\* entries naming no task of the batch have their edge too, and there is no
\* other edge.
C18_OneEdgePerLink ==
  last.op = "createEdges" =>
    /\ Len(built) = LinksBefore(tasks, Len(tasks) + 1)
    /\ \A i \in 1..Len(tasks) : \A k \in 1..Len(tasks[i].incomingLinks) :
         LET e == built[LinksBefore(tasks, i) + k]
             p == tasks[i].incomingLinks[k]
         IN /\ e.source = p
            /\ e.target = tasks[i].id
            /\ e.id = p \o "-" \o tasks[i].id
            /\ e.hash = p \o "-" \o tasks[i].id

\* the ids of the tasks of a batch
BatchIdsOf(ts) == {ts[i].id : i \in 1..Len(ts)}

\* edges were built from a batch of two tasks in which one parent is a task
\* of the batch and another is not
C18_Witness ==
  /\ last.op = "createEdges"
  /\ Len(tasks) = MaxBatch
  /\ Len(built) > Len(tasks)
  /\ \E k \in 1..Len(built) : built[k].source \in BatchIdsOf(tasks)
  /\ \E k \in 1..Len(built) : built[k].source \notin BatchIdsOf(tasks)

\* C19: every edge built from a batch has a task of the batch as its
\* source: an incomingLinks entry naming no task of the batch gives no edge.
C19_DanglingDropped ==
  last.op = "createEdges" =>
    \A k \in 1..Len(built) : built[k].source \in BatchIdsOf(tasks)

----------------------------------------------------------------------------
(* The sources of tasks: the Dataview index, the scan of the canvas view   *)
(* and the scan of the sidebar, over one document.                         *)

MaxScanLines == 2

ScanLineSet ==
  {"- [ ] buy", "- [ ]", "- [x] #x", "# h", "- [/] @ ddd444", "  - [ ] call *"}

ScanDocs == {join(ls) : ls \in SeqsUpTo(ScanLineSet, MaxScanLines) \ {<<>>}}

\* the id a task text carries in either marker form, "" when it has none
RECURSIVE ownIdFrom(_, _)
ownIdFrom(s, i) ==
  IF i > Len(s) THEN ""
  ELSE LET e == EmojiMarkerEnd(s, i, EmojiId)
           f == IdFieldEnd(s, i)
       IN IF e # 0 THEN From(Upto(s, e - 1), e - IdLen)
          ELSE IF f # 0 THEN From(Upto(s, f - 3), f - 2 - IdLen)
          ELSE ownIdFrom(s, i + 1)

\* the random ids the parser may give to the task on line index
Seeds == {"r4nd0", "q8zk2"}

\* the id of a parsed task: the one its text carries, else a random one of
\* IdLen characters
parsedId(text, seed, index) ==
  IF ownIdFrom(text, 1) # "" THEN ownIdFrom(text, 1) ELSE seed \o ToStr(index)

\* a task is empty when nothing but whitespace is left of its text once the
\* id, star and tag markers are stripped
isEmptyTask(t) == coreText(replaceStar(t.text)) = ""

\* factory.parse(rawTask) of the raw task of a task line
parsedTask(line, seed, index) ==
  [scannedTask(line, index) EXCEPT !.id = parsedId(stripCheckbox(line), seed, index)]

\* the sidebar keeps an id that is neither missing nor IdLen characters long
sidebarTask(line, seed, index) ==
  LET t == parsedTask(line, seed, index)
  IN IF t.id = "" \/ Len(t.id) = IdLen THEN scannedTask(line, index) ELSE t

RECURSIVE sidebarLines(_, _, _)
sidebarLines(lines, seed, i) ==
  IF i > Len(lines) THEN <<>>
  ELSE IF taskMatch(lines[i]) # 0
       THEN <<sidebarTask(lines[i], seed, i - 1)>> \o sidebarLines(lines, seed, i + 1)
  ELSE sidebarLines(lines, seed, i + 1)

\* scanTasks of the sidebar
scanTasks(fileContent, seed) == sidebarLines(splitLf(fileContent), seed, 1)

\* tasks.map((rawTask) => factory.parse(rawTask)), the raw tasks being the
\* task lines of the document as the Dataview index lists them
RECURSIVE parsedLines(_, _, _)
parsedLines(lines, seed, i) ==
  IF i > Len(lines) THEN <<>>
  ELSE IF taskMatch(lines[i]) # 0
       THEN <<parsedTask(lines[i], seed, i - 1)>> \o parsedLines(lines, seed, i + 1)
  ELSE parsedLines(lines, seed, i + 1)

\* parsedTasks.filter((task) => !factory.isEmptyTask(task))
getAllDataviewTasks(fileContent, seed) ==
  SelectSeq(parsedLines(splitLf(fileContent), seed, 1), LAMBDA t : ~isEmptyTask(t))

InitScan ==
  /\ content \in ScanDocs
  /\ CanvasIdle
  /\ before = content
  /\ task = ForeignTask
  /\ linkingStyle = "csv"
  /\ last = NoOp
  /\ prior = NoPrior
  /\ added = NoAdds
  /\ steps = 0

\* bookkeeping of one hand-over of a task set
Scanned(op) ==
  /\ steps < MaxSteps
  /\ last' = [op |-> op, arg |-> ""]
  /\ steps' = steps + 1
  /\ UNCHANGED <<saved, nodes, edges, timerVars, shown, built, scans, isLoading>>
  /\ UNCHANGED <<content, task, linkingStyle, before, prior, added>>

\* the canvas view: setTasks(await scanTasksFromFiles())
ScanTasksFromFiles ==
  /\ tasks' = scanTasksFromFiles(content)
  /\ Scanned("scanTasksFromFiles")

\* the sidebar: setTasks(allTasks)
ScanTasks ==
  \E seed \in Seeds :
    /\ tasks' = scanTasks(content, seed)
    /\ Scanned("scanTasks")

\* the Dataview source
GetAllDataviewTasks ==
  \E seed \in Seeds :
    /\ tasks' = getAllDataviewTasks(content, seed)
    /\ Scanned("getAllDataviewTasks")

NextScan == ScanTasksFromFiles \/ ScanTasks \/ GetAllDataviewTasks

SpecScan == InitScan /\ [][NextScan]_vars

ScanOps == {"scanTasksFromFiles", "scanTasks", "getAllDataviewTasks"}

\* C20: whichever source hands a task set to the graph or to the sidebar
\* (the Dataview index, the scan of the canvas view, the scan of the
\* sidebar), no task of the set is empty.
C20_NoEmptyTask ==
  last.op \in ScanOps => \A k \in 1..Len(tasks) : ~isEmptyTask(tasks[k])

----------------------------------------------------------------------------
(* Nodes and the tasks they carry.                                         *)

\* C21: in every state of the canvas each node has the id of the task it
\* carries, whether the node was added from the sidebar, restored from a
\* snapshot the view wrote, refreshed, or built by createNodesFromTasks.
C21_NodeIdIsTaskId ==
  \A k \in 1..Len(nodes) : nodes[k].id = nodes[k].task.id

\* a node added from the sidebar has been refreshed with the scanned task
C21_Witness ==
  /\ last.op = "updateNodes"
  /\ saved = NoSnapshot
  /\ Len(nodes) = 1
  /\ nodes[1].id = "n.md:1"
  /\ nodes[1].task.status = "done"

----------------------------------------------------------------------------
(* Starring a task of either kind.                                         *)

\* what follows the text on the line of an inline task: no star, one star
\* (last or not), two stars typed by hand
StarSuffixes == {"", " *", " * #x", " * *"}

InitStar ==
  /\ \/ \E shape \in 1..3, suffix \in StarSuffixes, eol \in Eols :
          /\ content = InlineDoc(shape, TaskLine("", " ", suffix), eol)
          /\ task = ParsedTask(suffix)
     \/ \E shape \in {1, 4}, fields \in NoteFields, eol \in Eols :
          /\ content = NoteDoc(shape, fields, eol)
          /\ task = NoteTask
  /\ linkingStyle = "csv"
  /\ before = content
  /\ last = NoOp
  /\ prior = NoPrior
  /\ added = NoAdds
  /\ steps = 0
  /\ CanvasIdle

NextStar == AddStar \/ RemoveStar

SpecStar == InitStar /\ [][NextStar]_vars

\* the number of star glyphs in s
RECURSIVE StarsIn(_)
StarsIn(s) ==
  IF s = "" THEN 0
  ELSE IF StartsWithAt(s, 1, EmojiStar) THEN 1 + StarsIn(From(s, 1 + Len(EmojiStar)))
  ELSE StarsIn(From(s, 2))

\* the lines of the frontmatter block of text that start with the key
FieldLines(text, key) ==
  LET lines == split(text)
  IN {i \in 2..(frontmatterEnd(lines) - 1) : StartsWithAt(lines[i], 1, key)}

\* the note half of C22: one starred field, true, placed after the priority
\* field or last in the block when the add created it
StarredFieldSet ==
  (last.op = "addStar" /\ task.type = "note" /\ ~NoBlock(before)) =>
    LET lines == split(content)
        starred == FieldLines(content, "starred:")
        priority == FieldLines(before, "priority:")
    IN /\ Cardinality(starred) = 1
       /\ \A i \in starred : lines[i] = "starred: true"
       /\ FieldLines(before, "starred:") = {} =>
            IF priority # {}
            THEN \A p \in priority : lines[p + 1] = "starred: true"
            ELSE lines[frontmatterEnd(lines) - 1] = "starred: true"

\* a second add-star in a row changes nothing
SecondStarIsNoOp ==
  (last.op = "addStar" /\ prior.op = "addStar") => content = before

----------------------------------------------------------------------------
(* Tagging a note task whose block lists its tags in one of the forms of   *)
(* YAML.                                                                   *)

\* no tags field; a block list (tags last, tags first, holding x already);
\* a flow list; a block list whose items are not indented
TagFields ==
  {<<"status: open">>,
   <<"status: open", "tags:", "  - task">>,
   <<"tags:", "  - task", "status: open">>,
   <<"tags:", "  - task", "  - x">>,
   <<"status: open", "tags: [task]">>,
   <<"tags:", "- task", "status: open">>}

InitNoteTag ==
  /\ \E shape \in {1, 4}, fields \in TagFields, eol \in Eols :
       content = NoteDoc(shape, fields, eol)
  /\ task = NoteTask
  /\ linkingStyle = "csv"
  /\ before = content
  /\ last = NoOp
  /\ prior = NoPrior
  /\ added = NoAdds
  /\ steps = 0
  /\ CanvasIdle

NextNoteTag == AddTag \/ RemoveTag

SpecNoteTag == InitNoteTag /\ [][NextNoteTag]_vars

\* the lines of the frontmatter block of text that are the list item v
ItemLines(text, v) ==
  LET lines == split(text)
  IN {i \in 2..(frontmatterEnd(lines) - 1) : Trim(lines[i]) = "- " \o v}

\* C23: after add-tag X on a note with a well-formed block, the block has
\* exactly one tags field and X is listed exactly once; a block that had a
\* tags field, in whatever form, gets no new field, the item being added
\* after the last item of the list; adding X again changes nothing.
C23_NoteTagOnce ==
  /\ (last.op = "addTag" /\ task.type = "note" /\ ~NoBlock(before)) =>
       /\ Cardinality(FieldLines(content, "tags:")) = 1
       /\ Cardinality(ItemLines(content, last.arg)) = 1
       /\ FieldLines(before, "tags:") # {} =>
            /\ FieldLines(content, "tags:") = FieldLines(before, "tags:")
            /\ ItemLines(before, last.arg) = {} =>
                 \A i \in ItemLines(content, last.arg) :
                   /\ i > 2
                   /\ Includes(split(content)[i - 1], "- ")
                   /\ (i + 1 < frontmatterEnd(split(content)) =>
                         ~Includes(split(content)[i + 1], "- "))
  /\ (last.op = "addTag" /\ prior.op = "addTag" /\ last.arg = prior.arg
      /\ task.type = "note") => content = before

----------------------------------------------------------------------------
(* Dependencies of a note task whose block lists them in one of the forms  *)
(* the parser of blockedBy reads.                                          *)

\* no blockedBy field; a list of uid entries followed by another field; a
\* list of plain references; uid entries followed by a plain reference; an
\* empty flow list
DepFields ==
  {<<"status: open">>,
   <<"blockedBy:", "  - uid: \"[[g]]\"", "    reltype: FINISHTOSTART", "tags:", "  - task">>,
   <<"status: open", "blockedBy:", "  - \"[[h]]\"">>,
   <<"blockedBy:", "  - uid: \"[[g]]\"", "    reltype: FINISHTOSTART", "  - \"[[h]]\"">>,
   <<"status: open", "blockedBy: []">>}

InitNoteDep ==
  /\ \E shape \in {1, 4}, fields \in DepFields, eol \in Eols :
       content = NoteDoc(shape, fields, eol)
  /\ task = NoteTask
  /\ linkingStyle = "csv"
  /\ before = content
  /\ last = NoOp
  /\ prior = NoPrior
  /\ added = NoAdds
  /\ steps = 0
  /\ CanvasIdle

NextNoteDep == AddNoteDependency \/ RemoveNoteDependency

SpecNoteDep == InitNoteDep /\ [][NextNoteDep]_vars

\* the two lines of the entry for the task with id fromId
EntryOf(fromId) ==
  <<"  - uid: \"[[" \o basename(fromId) \o "]]\"", "    reltype: FINISHTOSTART">>

\* text has a uid entry for the task with id fromId
HasEntry(text, fromId) ==
  \E i \in 1..Len(split(text)) : split(text)[i] = EntryOf(fromId)[1]

\* new is old with the entry for fromId as the last item of the blockedBy
\* list, the field being created before the closing boundary when old has none
EntryAddedLast(old, new, fromId) ==
  LET fmEnd == frontmatterEnd(old)
      fields == {i \in 2..(fmEnd - 1) : StartsWithAt(old[i], 1, "blockedBy:")}
  IN IF fields = {}
     THEN new = splice(old, fmEnd, 0, <<"blockedBy:">> \o EntryOf(fromId))
     ELSE \E b \in fields : \E k \in (b + 1)..fmEnd :
            /\ new = splice(old, k, 0, EntryOf(fromId))
            /\ \A i \in (b + 1)..(k - 1) : IsSpace(CharAt(old[i], 1))
            /\ k = fmEnd \/ ~IsSpace(CharAt(old[k], 1))

\* C24: on a note with a well-formed block, adding a dependency on F puts
\* one uid entry for F, with its relation line, last in the blockedBy list
\* (the field being created before the closing boundary if the block has
\* none); adding it again changes nothing; removing it afterwards deletes
\* the two lines of that entry and nothing else.
C24_NoteDependencyRoundTrip ==
  /\ (/\ last.op = "addDependency" /\ ~NoBlock(before)
      /\ ~HasEntry(before, last.arg)) =>
       EntryAddedLast(split(before), split(content), last.arg)
  /\ (/\ last.op = "addDependency" /\ prior.op = "addDependency"
      /\ last.arg = prior.arg) => content = before
  /\ (/\ last.op = "removeDependency" /\ prior.op = "addDependency"
      /\ last.arg = prior.arg /\ ~NoBlock(prior.text)
      /\ ~HasEntry(prior.text, last.arg)) =>
       \E k \in 1..Len(split(before)) :
         split(before) = splice(split(content), k, 0, EntryOf(last.arg))

----------------------------------------------------------------------------
(* Linking two tasks: addLinkSignsBetweenTasks(fromTask, toTask), the two  *)
(* task lines being in the one document.                                   *)

\* the folder the scans read; a scanned id is <path in the vault>:<index>
ScanFolder == "Spaces/2.Area/Tasks/"

\* RegExp class \w
IsWord(c) == IsAlnum(c) \/ c = "_"

RECURSIVE SkipWord(_, _)
SkipWord(s, i) ==
  IF i <= Len(s) /\ IsWord(CharAt(s, i)) THEN SkipWord(s, i + 1) ELSE i

\* task.text?.match(/<id emoji>\s*(\w+)/): the group of the first match, "" when none
RECURSIVE emojiWordFrom(_, _)
emojiWordFrom(s, i) ==
  IF i > Len(s) THEN ""
  ELSE IF StartsWithAt(s, i, EmojiId)
       THEN LET b == SkipSpace(s, i + Len(EmojiId))
                e == SkipWord(s, b)
            IN IF e > b THEN From(Upto(s, e - 1), b) ELSE emojiWordFrom(s, i + 1)
  ELSE emojiWordFrom(s, i + 1)

\* what generateShortId may return
FreshIds == {"r4nd0m", "q8zk2p"}

\* fresh is the value generateShortId returns when it is called
getProperIdForLinking(t, fresh) ==
  IF t.id # "" /\ (Includes(t.id, "/") \/ Len(t.id) > 10)
  THEN IF emojiWordFrom(t.text, 1) # "" THEN emojiWordFrom(t.text, 1) ELSE fresh
  ELSE t.id

addLinkSignsBetweenTasks(fromTask, toTask, style, fresh, fileContent) ==
  LET id == getProperIdForLinking(fromTask, fresh)
  IN IF fromTask.link = "" \/ toTask.link = "" THEN fileContent
     ELSE IF toTask.type = "note" THEN addDependencyToNoteTask(toTask, fromTask, fileContent)
     ELSE addSignToTaskInFile(toTask, "stop", id, style,
            addSignToTaskInFile(fromTask, "id", id, style, fileContent))

\* what the line of the source task carries after its text: nothing, an own
\* id in either form, an id emoji followed by a word that is no id
FromSuffixes == {"", " @ aaa111", " [[id:: aaa111]]", " @ v2"}

\* the source task as the scan of the canvas gives it, as the Dataview
\* source gives it, or a note at the root of the vault or in a folder
FromTaskForms(suffix) ==
  {[id |-> ScanFolder \o DocPath \o ":0", text |-> "buy" \o suffix, type |-> "inline",
    link |-> DocPath],
   [id |-> parsedId("buy" \o suffix, "r4nd0", 0), text |-> "buy" \o suffix,
    type |-> "inline", link |-> DocPath]}
  \cup (IF suffix = "" THEN FromTasks ELSE {})

ToTask ==
  [id |-> ScanFolder \o DocPath \o ":1", text |-> "sell", type |-> "inline", link |-> DocPath]

InitLink ==
  /\ \E suffix \in FromSuffixes, eol \in Eols :
       /\ content = "- [ ] buy" \o suffix \o eol \o "- [ ] sell"
       /\ \E from \in FromTaskForms(suffix) : tasks = <<from, ToTask>>
  /\ task = ToTask
  /\ linkingStyle \in Styles
  /\ before = content
  /\ last = NoOp
  /\ prior = NoPrior
  /\ added = NoAdds
  /\ steps = 0
  /\ saved = NoSnapshot /\ nodes = <<>> /\ edges = <<>>
  /\ TimersIdle
  /\ shown = NoTags
  /\ built = <<>>
  /\ scans = <<>>
  /\ isLoading = FALSE

\* addLinkSignsBetweenTasks(vault, fromTask, toTask, linkingStyle); last.arg
\* is the id it links with
AddLinkSigns ==
  \E fresh \in FreshIds :
    /\ steps < MaxSteps
    /\ content' = addLinkSignsBetweenTasks(tasks[1], tasks[2], linkingStyle, fresh, content)
    /\ before' = content
    /\ last' = [op |-> "link", arg |-> getProperIdForLinking(tasks[1], fresh)]
    /\ prior' = [op |-> last.op, arg |-> last.arg, text |-> before]
    /\ steps' = steps + 1
    /\ UNCHANGED <<task, linkingStyle, added>>
    /\ UNCHANGED canvasVars

\* removeLinkSignsBetweenTasks(vault, toTask, hash), the hash being one
\* that linking has used
RemoveLinkSigns ==
  /\ steps < MaxSteps
  /\ last.op = "link"
  /\ content' = removeSignFromTaskInFile(tasks[2], "stop", last.arg, content)
  /\ before' = content
  /\ last' = [op |-> "unlink", arg |-> last.arg]
  /\ prior' = [op |-> last.op, arg |-> last.arg, text |-> before]
  /\ steps' = steps + 1
  /\ UNCHANGED <<task, linkingStyle, added>>
  /\ UNCHANGED canvasVars

NextLink == AddLinkSigns \/ RemoveLinkSigns

SpecLink == InitLink /\ [][NextLink]_vars

\* a token of IdLen characters over [a-z0-9]
IsToken(s) ==
  /\ Len(s) = IdLen
  /\ \A k \in 1..Len(s) : CharAt(s, k) \in Lower \cup Digit

\* C25: the id linking writes into the markers is a token of 6 characters
\* over [a-z0-9]: the id the line of the source task carries, or a fresh
\* one when it carries none; never a positional id path:line.
C25_LinkIdIsToken ==
  last.op = "link" =>
    /\ IsToken(last.arg)
    /\ ownIdFrom(tasks[1].text, 1) # "" => last.arg = ownIdFrom(tasks[1].text, 1)
    /\ ~Includes(last.arg, ":")

\* the line of text that includes the text of task t; 0 when none does
LineOf(t, text) == findIndex(split(text), LAMBDA line : Includes(line, t.text))

\* the ids the dependency markers of a line carry
DepIds(line) == {Flatten(depMarkers(line, 1))[k] : k \in 1..Len(Flatten(depMarkers(line, 1)))}

\* C30: after linking two inline tasks whose lines are located, the id of
\* the dependency marker added to the line of the target is the id of the
\* own-id marker (emoji or field) on the line of the source.
C30_SharedHash ==
  (/\ last.op = "link"
   /\ tasks[1].type = "inline" /\ tasks[2].type = "inline"
   /\ LineOf(tasks[1], before) # 0 /\ LineOf(tasks[2], before) # 0) =>
    LET source == split(content)[LineOf(tasks[1], before)]
        target == split(content)[LineOf(tasks[2], before)]
        old == split(before)[LineOf(tasks[2], before)]
    IN /\ ownIdFrom(source, 1) # ""
       /\ DepIds(target) \ DepIds(old) \subseteq {ownIdFrom(source, 1)}
       /\ ownIdFrom(source, 1) \in DepIds(target)

----------------------------------------------------------------------------
(* Reading a note task from its file: parseTaskNote and the priority it    *)
(* normalizes.                                                             *)

\* stand-ins for the high and the low priority glyph
PriorityHigh == "^"
PriorityLow == "~"

UpperSeq == "ABCDEFGHIJKLMNOPQRSTUVWXYZ"
LowerSeq == "abcdefghijklmnopqrstuvwxyz"

RECURSIVE toLowerCase(_)
toLowerCase(s) ==
  IF s = "" THEN ""
  ELSE LET c == CharAt(s, 1)
           low == IF c \in Upper
                  THEN CharAt(LowerSeq, CHOOSE i \in 1..Len(UpperSeq) : CharAt(UpperSeq, i) = c)
                  ELSE c
       IN low \o toLowerCase(From(s, 2))

normalizeNotePriority(priority) ==
  IF priority = "" THEN ""
  ELSE CASE toLowerCase(priority) = "high" -> PriorityHigh
         [] toLowerCase(priority) = "normal" -> ""
         [] toLowerCase(priority) = "low" -> PriorityLow
         [] toLowerCase(priority) = "none" -> ""
         [] OTHER -> ""

\* cache.frontmatter[key] of a scalar field, "" when the block has none
frontmatterValue(text, key) ==
  LET lines == split(text)
      hits == {i \in 2..(frontmatterEnd(lines) - 1) : StartsWithAt(lines[i], 1, key \o ":")}
  IN IF hits = {} THEN ""
     ELSE Trim(From(lines[CHOOSE i \in hits : \A j \in hits : i <= j], Len(key) + 2))

\* the task parseTaskNote makes of the note at DocPath
parseTaskNote(text) ==
  [id |-> DocPath, text |-> basename(DocPath), type |-> "note", link |-> DocPath,
   priority |-> IF frontmatterValue(text, "priority") # ""
                THEN normalizeNotePriority(frontmatterValue(text, "priority")) ELSE "",
   starred |-> frontmatterValue(text, "starred") = "true"]

PriorityValues ==
  {"high", "High", "HIGH", "hIgH", "normal", "Normal", "low", "Low", "LOW",
   "none", "None", "urgent", "highest", ""}

StarredLines == {<<>>, <<"starred: true">>, <<"starred: false">>}

InitParse ==
  /\ \E p \in PriorityValues, st \in StarredLines, eol \in Eols :
       content = NoteDoc(1, <<"status: open">>
                            \o (IF p = "" THEN <<>> ELSE <<"priority: " \o p>>) \o st, eol)
  /\ task = NoteTask
  /\ linkingStyle = "csv"
  /\ before = content
  /\ last = NoOp
  /\ prior = NoPrior
  /\ added = NoAdds
  /\ steps = 0
  /\ CanvasIdle

\* getNoteTasks: the note is read into the task list
ParseTaskNote ==
  /\ steps < MaxSteps
  /\ tasks' = <<parseTaskNote(content)>>
  /\ last' = [op |-> "parseTaskNote", arg |-> frontmatterValue(content, "priority")]
  /\ steps' = steps + 1
  /\ UNCHANGED <<saved, nodes, edges, timerVars, shown, built, scans, isLoading>>
  /\ UNCHANGED <<content, task, linkingStyle, before, prior, added>>

NextParse == ParseTaskNote \/ AddStar \/ RemoveStar

SpecParse == InitParse /\ [][NextParse]_vars

\* C26: the priority of a note task is the high glyph when the priority
\* value of the note is "high" in any letter case, and empty for every
\* other value: "normal", "low", "none", unknown values, no value.
C26_OnlyHighHasGlyph ==
  last.op = "parseTaskNote" =>
    tasks[1].priority = IF toLowerCase(last.arg) = "high" THEN PriorityHigh ELSE ""

----------------------------------------------------------------------------
(* The layout adapter: getLayoutedElements over the nodes of a batch.      *)

NODEWIDTH == 250
NODEHEIGHT == 120

\* centers the layout algorithm may give to a node of that size
Centers == {[x |-> 125, y |-> 60], [x |-> 425, y |-> 230]}

\* direction === "Horizontal" ? "LR" : "TB"
rankdirOf(direction) == IF direction = "Horizontal" THEN "LR" ELSE "TB"

\* placed is dagreGraph.node after dagre.layout: the center of each node
\* the graph holds
getLayoutedElements(currentNodes, placed) ==
  [k \in 1..Len(currentNodes) |->
     IF currentNodes[k].id \notin DOMAIN placed
     THEN [currentNodes[k] EXCEPT !.position = [x |-> 0, y |-> 0]]
     ELSE [currentNodes[k] EXCEPT !.position =
             [x |-> placed[currentNodes[k].id].x - 90,
              y |-> placed[currentNodes[k].id].y - 30]]]

\* nodes = getLayoutedElements(nodes, edges, direction); last.arg keeps the
\* rank direction given to the algorithm and the centers it returned
LayoutElements ==
  \E direction \in {"Horizontal", "Vertical"}, placed \in [BatchIdsOf(nodes) -> Centers] :
    /\ steps < MaxSteps
    /\ nodes' = getLayoutedElements(nodes, placed)
    /\ last' = [op |-> "layout",
                arg |-> [direction |-> direction, rankdir |-> rankdirOf(direction),
                         placed |-> placed]]
    /\ steps' = steps + 1
    /\ UNCHANGED <<saved, edges, tasks, timerVars, shown, built, scans, isLoading>>
    /\ UNCHANGED <<content, task, linkingStyle, before, prior, added>>

NextLayout == CreateEdgesFromTasks \/ LayoutElements

SpecLayout == InitBuild /\ [][NextLayout]_vars

\* C27: the layout adapter returns the nodes in their order, each with its
\* fields other than the position unchanged; a node the algorithm centered
\* at (cx, cy) is placed at (cx - NODEWIDTH / 2, cy - NODEHEIGHT / 2), a
\* node it did not place at the origin; Horizontal asks for ranks from left
\* to right, Vertical from top to bottom.
C27_LayoutRecentres ==
  [][last'.op = "layout" =>
       /\ Len(nodes') = Len(nodes)
       /\ \A k \in 1..Len(nodes) :
            /\ nodes'[k].id = nodes[k].id
            /\ nodes'[k].task = nodes[k].task
            /\ nodes'[k].position =
                 IF nodes[k].id \in DOMAIN last'.arg.placed
                 THEN [x |-> last'.arg.placed[nodes[k].id].x - NODEWIDTH \div 2,
                       y |-> last'.arg.placed[nodes[k].id].y - NODEHEIGHT \div 2]
                 ELSE [x |-> 0, y |-> 0]
       /\ last'.arg.rankdir = IF last'.arg.direction = "Horizontal" THEN "LR" ELSE "TB"]_vars

----------------------------------------------------------------------------
(* Locating the line of a task that carries its own id marker: every      *)
(* mutation of one inline task, on a document with a line before it.       *)

\* the id marker of the task's line, in its two forms
IdMarkers == {" @ aaa111", " [[id:: aaa111]]"}

\* what follows the id marker on the task's line
IdTails == {"", " #x"}

\* the line before the task's line: one that contains the words of the
\* task, and one that does not
EarlierLines == {"- [ ] buy bread", "- [x] sell"}

\* The record holds the id of the line and the text as it was scanned:
\* the whole remainder of the line, or the remainder before the marker and
\* what follows it were written.
InitLocate ==
  /\ \E earlier \in EarlierLines, marker \in IdMarkers, tail \in IdTails,
        whole \in BOOLEAN :
       /\ content = earlier \o "\n" \o "- [ ] buy" \o marker \o tail
       /\ task = [id |-> "aaa111",
                  text |-> IF whole THEN "buy" \o marker \o tail ELSE "buy",
                  type |-> "inline", link |-> DocPath]
  /\ linkingStyle \in Styles
  /\ before = content
  /\ last = NoOp
  /\ prior = NoPrior
  /\ added = NoAdds
  /\ steps = 0
  /\ CanvasIdle

NextLocate ==
  SetStatus \/ AddTag \/ RemoveTag \/ AddStar \/ RemoveStar \/ AddStop \/ RemoveStop

SpecLocate == InitLocate /\ [][NextLocate]_vars

\* the first line of text that carries the id marker of the task; 0 when none
IdLineIn(text) ==
  LET lines == split(text)
      carrying == {i \in 1..Len(lines) :
                     \/ Includes(lines[i], EmojiId \o " " \o task.id)
                     \/ Includes(lines[i], "[[id:: " \o task.id \o "]]")}
  IN IF carrying = {} THEN 0 ELSE CHOOSE i \in carrying : \A j \in carrying : i <= j

\* the lines other than line k are the same in the two texts
OnlyLineChanged(old, new, k) ==
  /\ Len(split(new)) = Len(split(old))
  /\ \A i \in 1..Len(split(old)) : i # k => split(new)[i] = split(old)[i]

\* C28: when a line of the document carries the id marker of the task,
\* every mutation for that task (status, tag, star, dependency marker)
\* changes that line and no other, also when an earlier line contains the
\* stored text of the task.
C28_IdLineIsTheTarget ==
  (last.op # "none" /\ IdLineIn(before) # 0)
    => OnlyLineChanged(before, content, IdLineIn(before))

----------------------------------------------------------------------------
(* Removing one dependency id from the located line.                       *)

RECURSIVE Occurrences(_, _)
\* how many times p occurs in s
Occurrences(s, p) ==
  IF IndexOf(s, p) = 0 THEN 0
  ELSE 1 + Occurrences(From(s, IndexOf(s, p) + Len(p)), p)

\* C29: removing dependency id h from a located line that carries h, in a
\* dataview field, a csv marker or one of several individual markers,
\* leaves a line where h is in no dependency marker, every other
\* dependency id is still there, and no marker is left with an empty list.
C29_RemoveInAnyDialect ==
  LET k == SignLineIn(before)
      old == Flatten(depMarkers(split(before)[k], 1))
      newLine == split(content)[k]
      new == depMarkers(newLine, 1)
  IN (last.op = "removeStop" /\ k # 0 /\ Has(old, last.arg))
     => /\ ~Has(Flatten(new), last.arg)
        /\ \A i \in 1..Len(old) : old[i] # last.arg => Has(Flatten(new), old[i])
        /\ Occurrences(newLine, EmojiStop) + Occurrences(newLine, DependsOnOpen) = Len(new)

----------------------------------------------------------------------------
(* The value addLinkSignsBetweenTasks returns.                             *)

\* undefined is ""; id is getProperIdForLinking(fromTask)
linkReturn(fromTask, toTask, id) ==
  IF fromTask.link = "" \/ toTask.link = "" THEN ""
  ELSE id \o "-" \o toTask.id

\* target records: the task of line 2, one whose line is not in the
\* document, one without a document path, one whose document is gone
ToTasks ==
  {ToTask,
   [ToTask EXCEPT !.text = "call"],
   [ToTask EXCEPT !.link = ""],
   [ToTask EXCEPT !.link = "gone.md"]}

InitLinkTo ==
  /\ \E suffix \in {"", " @ aaa111"}, eol \in Eols, to \in ToTasks :
       /\ content = "- [ ] buy" \o suffix \o eol \o "- [ ] sell"
       /\ tasks = <<[id |-> ScanFolder \o DocPath \o ":0", text |-> "buy" \o suffix,
                     type |-> "inline", link |-> DocPath], to>>
       /\ task = to
  /\ linkingStyle \in Styles
  /\ before = content
  /\ last = NoOp
  /\ prior = NoPrior
  /\ added = NoAdds
  /\ steps = 0
  /\ saved = NoSnapshot /\ nodes = <<>> /\ edges = <<>>
  /\ TimersIdle
  /\ shown = NoTags
  /\ built = <<>>
  /\ scans = <<>>
  /\ isLoading = FALSE

SpecLinkTo == InitLinkTo /\ [][NextLink]_vars

\* C31: addLinkSignsBetweenTasks returns a hash only when the dependency
\* is on the target's line of the document afterwards; with no document
\* path, no document or no located line it returns no hash.
C31_HashMeansWritten ==
  (last.op = "link" /\ linkReturn(tasks[1], tasks[2], last.arg) # "") =>
    /\ fileExists(tasks[2].link)
    /\ LineOf(tasks[2], content) # 0
    /\ last.arg \in DepIds(split(content)[LineOf(tasks[2], content)])

----------------------------------------------------------------------------
(* Indentation and checklist prefix of the mutated line.                   *)

\* the leading whitespace of a task line and its "- [c] " prefix
LinePrefix(line) == Upto(line, SkipSpace(line, 1) + 5)

\* C32: inline add-tag, remove-tag and remove-star keep the leading
\* indentation and the checklist prefix of the located line, so a nested
\* task stays nested.
C32_PrefixPreserved ==
  LET k == LocatedFor(last.op, before)
  IN (/\ last.op \in {"addTag", "removeTag", "removeStar"}
      /\ task.type = "inline" /\ k # 0
      /\ Len(split(before)[k]) >= SkipSpace(split(before)[k], 1) + 5)
     => LinePrefix(split(content)[k]) = LinePrefix(split(before)[k])

----------------------------------------------------------------------------
(* The tag tokens of a line.                                               *)

RECURSIVE TagTokens(_)
\* the words written after a "#" in s, each up to the next whitespace
TagTokens(s) ==
  IF s = "" THEN {}
  ELSE IF CharAt(s, 1) = "#" /\ SkipNonSpace(s, 2) > 2
       THEN {SubSeq(s, 2, SkipNonSpace(s, 2) - 1)} \cup TagTokens(From(s, SkipNonSpace(s, 2)))
       ELSE TagTokens(From(s, 2))

\* C33: remove-tag X on a located inline task line removes the token #X
\* and no other tag: the tags of the line afterwards are its tags before
\* minus X; a nested tag #X/sub stays.
C33_RemovesOnlyThatTag ==
  LET k == LocatedFor(last.op, before)
  IN (last.op = "removeTag" /\ task.type = "inline" /\ k # 0)
     => TagTokens(split(content)[k]) = TagTokens(split(before)[k]) \ {last.arg}

----------------------------------------------------------------------------
(* Refresh after the document was edited above a task: scanTasksFromFiles  *)
(* gives path:line ids, updateNodes matches nodes to tasks by that id.     *)

MaxDocLines == 4

RebindDocs == {"- [ ] buy\n- [ ] sell", "# h\n- [ ] buy\n- [x] sell"}

\* the view after its tasks were scanned and a node placed for each of
\* them: node 1 for the task "buy", node 2 for the task "sell"
InitRebind ==
  /\ content \in RebindDocs
  /\ tasks = scanTasksFromFiles(content)
  /\ nodes = createNodesFromTasks(scanTasksFromFiles(content))
  /\ saved = NoSnapshot
  /\ edges = <<>>
  /\ TimersIdle
  /\ shown = NoTags
  /\ built = <<>>
  /\ scans = <<>>
  /\ isLoading = FALSE
  /\ before = content
  /\ task = ForeignTask
  /\ linkingStyle = "csv"
  /\ last = NoOp
  /\ prior = NoPrior
  /\ added = NoAdds
  /\ steps = 0

\* the user's edit of the document in the editor
Edited(text) ==
  /\ content' = text
  /\ before' = content
  /\ last' = [op |-> "edit", arg |-> ""]
  /\ UNCHANGED <<task, linkingStyle, prior, added, steps>>
  /\ UNCHANGED canvasVars

\* a line is typed above the tasks
InsertLineAbove ==
  \E line \in {"", "- [ ] call"} :
    /\ Len(splitLf(content)) < MaxDocLines
    /\ Edited(line \o "\n" \o content)

\* the first line is deleted, when it is not the line of a placed task
DeleteLineAbove ==
  /\ splitLf(content)[1] \notin {"- [ ] buy", "- [ ] sell", "- [x] sell"}
  /\ Edited(From(content, IndexOf(content, "\n") + 1))

NextRebind ==
  \/ UpdateNodes \/ InsertLineAbove \/ DeleteLineAbove
  \/ Tick \/ KickFires \/ SaveTimerFires

SpecRebind == InitRebind /\ [][NextRebind]_vars

\* C34: a refresh never binds a node to another task: after lines were
\* inserted or deleted above the tasks, the node placed for "buy" still
\* carries the task "buy" and the node placed for "sell" the task "sell".
C34_NodeKeepsItsTask ==
  /\ Len(nodes) = 2
  /\ nodes[1].task.text = "buy"
  /\ nodes[2].task.text = "sell"

----------------------------------------------------------------------------
(* Timers that outlive the view.                                           *)

\* C35: after the view was torn down it writes no further snapshot: no
\* save timer scheduled before the teardown writes after the teardown
\* flush.
C35_NoWriteAfterTeardown ==
  (~mounted /\ last.op \in {"tick", "kick", "saveTimer"}) => ~wrote

----------------------------------------------------------------------------
(* Node ids on the canvas.                                                 *)

NodeIdsDistinct(ns) == \A i, j \in 1..Len(ns) : ns[i].id = ns[j].id => i = j

----------------------------------------------------------------------------
(* Edges and the nodes they join.                                          *)

EdgesAttached(ns, es) ==
  \A j \in 1..Len(es) : es[j].source \in IdsOf(ns) /\ es[j].target \in IdsOf(ns)

----------------------------------------------------------------------------
(* Overlapping refreshes of the canvas view: updateNodes suspends at       *)
(* `await scanTasksFromFiles()`, which suspends at each vault.read.        *)

MaxScans == 2

OverlapDocs == {"- [ ] buy", "- [/] buy", "- [x] buy"}

InitOverlap ==
  /\ content \in OverlapDocs
  /\ tasks = scanTasksFromFiles(content)
  /\ nodes = createNodesFromTasks(scanTasksFromFiles(content))
  /\ saved = NoSnapshot
  /\ edges = <<>>
  /\ TimersIdle
  /\ shown = NoTags
  /\ built = <<>>
  /\ scans = <<>>
  /\ isLoading = FALSE
  /\ before = content
  /\ task = ForeignTask
  /\ linkingStyle = "csv"
  /\ last = NoOp
  /\ prior = NoPrior
  /\ added = NoAdds
  /\ steps = 0

\* what a step of a scan leaves alone
ScanFrame ==
  /\ UNCHANGED <<saved, edges, mounted, wrote, shown, built, isLoading>>
  /\ UNCHANGED <<task, linkingStyle, before, prior, added, steps>>

\* updateNodes() is called (refresh button, auto-refresh callback) and
\* suspends in scanTasksFromFiles at vault.read
StartUpdateNodes ==
  /\ mounted
  /\ Len(scans) < MaxScans
  /\ scans' = Append(scans, [read |-> <<>>, done |-> FALSE])
  /\ last' = [op |-> "startUpdate", arg |-> ""]
  /\ UNCHANGED <<content, nodes, tasks, kicks, debounce, elapsed>>
  /\ ScanFrame

\* the vault.read of one scan resolves with the document as it is now
ReadResolves ==
  \E k \in 1..Len(scans) :
    /\ scans[k].read = <<>>
    /\ scans' = [scans EXCEPT ![k].read = <<scanTasksFromFiles(content)>>]
    /\ last' = [op |-> "read", arg |-> ""]
    /\ UNCHANGED <<content, nodes, tasks, kicks, debounce, elapsed>>
    /\ ScanFrame

\* updateNodes resumes after the await: setTasks, setNodes, setTimeout
UpdateNodesResumes ==
  \E k \in 1..Len(scans) :
    /\ scans[k].read # <<>>
    /\ ~scans[k].done
    /\ tasks' = scans[k].read[1]
    /\ nodes' = refreshedNodes(nodes, scans[k].read[1])
    /\ scans' = [scans EXCEPT ![k].done = TRUE]
    /\ Kick
    /\ last' = [op |-> "updateNodes", arg |-> ""]
    /\ UNCHANGED content
    /\ ScanFrame

\* the user changes the status of the task in the editor
EditStatus ==
  \E text \in OverlapDocs \ {content} :
    /\ content' = text
    /\ last' = [op |-> "edit", arg |-> ""]
    /\ UNCHANGED <<nodes, tasks, kicks, debounce, elapsed, scans>>
    /\ ScanFrame

NextOverlap == StartUpdateNodes \/ ReadResolves \/ UpdateNodesResumes \/ EditStatus

SpecOverlap == InitOverlap /\ [][NextOverlap]_vars

\* C38: when refresh scans overlapped and all have finished, the tasks of
\* the view are those read by the scan that started last; a scan that
\* started earlier and finished later has not overwritten them.
C38_LastStartedWins ==
  (scans # <<>> /\ \A k \in 1..Len(scans) : scans[k].done)
    => tasks = scans[Len(scans)].read[1]

----------------------------------------------------------------------------
(* The loading indicator of the sidebar: scanTasks of the sidebar view.    *)

InitSidebar ==
  /\ content \in OverlapDocs
  /\ CanvasIdle
  /\ before = content
  /\ task = ForeignTask
  /\ linkingStyle = "csv"
  /\ last = NoOp
  /\ prior = NoPrior
  /\ added = NoAdds
  /\ steps = 0

\* what a step of the sidebar leaves alone
SidebarFrame ==
  /\ UNCHANGED <<saved, nodes, edges, timerVars, shown, built>>
  /\ UNCHANGED <<content, task, linkingStyle, before, prior, added, steps>>

\* scanTasks() is called, on mount or by the refresh button (enabled while
\* isLoading is false): setIsLoading(true), then return when the tasks
\* folder is missing or not a folder, else suspend at vault.read
StartScanTasks ==
  \E isFolder \in BOOLEAN :
    /\ ~isLoading
    /\ Len(scans) < MaxScans
    /\ isLoading' = TRUE
    /\ scans' = IF isFolder THEN Append(scans, [read |-> <<>>, done |-> FALSE]) ELSE scans
    /\ last' = [op |-> "scanTasks", arg |-> IF isFolder THEN "" ELSE "noFolder"]
    /\ UNCHANGED tasks
    /\ SidebarFrame

\* the vault.read of the scan resolves and the lines are parsed
SidebarReadResolves ==
  \E k \in 1..Len(scans), seed \in Seeds :
    /\ scans[k].read = <<>>
    /\ scans' = [scans EXCEPT ![k].read = <<scanTasks(content, seed)>>]
    /\ last' = [op |-> "read", arg |-> ""]
    /\ UNCHANGED <<tasks, isLoading>>
    /\ SidebarFrame

\* scanTasks resumes after `await scanFolder(tasksFolder)`:
\* setTasks(allTasks), setIsLoading(false)
ScanTasksResumes ==
  \E k \in 1..Len(scans) :
    /\ scans[k].read # <<>>
    /\ ~scans[k].done
    /\ tasks' = scans[k].read[1]
    /\ isLoading' = FALSE
    /\ scans' = [scans EXCEPT ![k].done = TRUE]
    /\ last' = [op |-> "setTasks", arg |-> ""]
    /\ SidebarFrame

NextSidebar == StartScanTasks \/ SidebarReadResolves \/ ScanTasksResumes \/ EditStatus

\* every read that was issued resolves, and the scan then resumes
SpecSidebar ==
  /\ InitSidebar /\ [][NextSidebar]_vars
  /\ WF_vars(SidebarReadResolves) /\ WF_vars(ScanTasksResumes)

\* C39: every scan of the sidebar that turns the loading indicator on
\* turns it off again in the end, also when the tasks folder does not
\* exist or is not a folder.
C39_LoadingEnds == isLoading ~> ~isLoading

====
